---- MODULE Spec2Model ----
(***************************************************************************)
(* Work Tracker: the active-timer synchronisation engine.                  *)
(*                                                                         *)
(* The model follows src/src/hooks/useTimer.ts (the hook, lines 1-545),    *)
(* the active-timer section of the database layer (src/unnamed/part_004)   *)
(* and the localStorage adapter (src/src/lib/storage.ts).                  *)
(*                                                                         *)
(* A context is one mounted useTimer hook (a browser tab).  Each context   *)
(* lives on a device; the Fast Local Store (localStorage) is per device,   *)
(* the Durable Record Store (table active_timers, one row per user) and    *)
(* the table time_entries are shared.  Time is in milliseconds.            *)
(*                                                                         *)
(* Every await of the source is a position of the context (pc): the        *)
(* synchronous code between two awaits is one action.  A database request  *)
(* and the continuation that awaits it are one action: the request takes   *)
(* effect and the awaiting code resumes with its outcome.                  *)
(***************************************************************************)
EXTENDS Integers, Sequences, FiniteSets, TLC

\* ------------------------------------------------------------------------
\* Program constants
\* ------------------------------------------------------------------------
MILLISECONDS_PER_SECOND == 1000

STALE_TIMER_THRESHOLD == 24 * 60 * 60 * 1000

\* RequestCache.DEFAULT_TTL
DEFAULT_TTL == 5000

\* ------------------------------------------------------------------------
\* Bounds of the model
\* ------------------------------------------------------------------------
\* Number of RequestCache.fetch calls explored.
MaxCalls == 3

\* Number of clock advances (half a DEFAULT_TTL each) explored with the
\* cache.
CacheSteps == 2

\* Number of mutations of one key's data explored.
MaxMutations == 1

\* Number of clock advances explored.
MaxSteps == 1

\* Number of start/pause/resume/stop/reset calls explored (all contexts).
MaxOps == 2

\* Number of whole seconds the clock advances in the behaviours of one
\* session.
SessionSteps == 3

\* Number of calls explored in the behaviours of one session: start, pause,
\* resume and stop.
SessionOps == 4

\* One clock advance, half a second: ticks and floor() both matter.
StepMs == MILLISECONDS_PER_SECOND \div 2

\* The instant the behaviour begins: late enough for a row to be stale.
StartNow == STALE_TIMER_THRESHOLD + 4 * StepMs

MaxNow == StartNow + MaxSteps * StepMs

Contexts == {"A", "B"}

Projects == {"P1"}

\* The contexts that are opened in the behaviours of Spec.
Open == {"A"}

\* ------------------------------------------------------------------------
\* Values
\* ------------------------------------------------------------------------
\* null (no ActiveTimerData).
Null == [null |-> TRUE]

\* ActiveTimerData (types: id, projectId, startTime, timerState,
\* pausedDuration, createdAt, updatedAt).  The optional description carries
\* no logic and is left out.  The id `timer-${now}` is modelled by now.
Timer(id, p, st, ts, pd, ca, ua) ==
  [id |-> id, projectId |-> p, startTime |-> st, timerState |-> ts,
   pausedDuration |-> pd, createdAt |-> ca, updatedAt |-> ua]

\* Math.floor(ms / MILLISECONDS_PER_SECOND)
FloorSeconds(ms) == ms \div MILLISECONDS_PER_SECOND

VARIABLES
  now,            \* Date.now(), one clock for every context and the database
  user,           \* user[c]: the context has an authenticated user
  device,         \* device[c]: the device (localStorage) the context runs on
  local,          \* local[d]: localStorage key work-tracker-active-timer
  durable,        \* the user's row of active_timers, as rowToActiveTimer reads it
  timeEntries,    \* rows of time_entries
  inflight,       \* fire-and-forget database requests not yet answered
  feed,           \* feed[c]: realtime events delivered to c's channel, unhandled
  pc,             \* pc[c]: position of the context's async code
  state,          \* useState: 'idle' | 'running' | 'paused'
  elapsedTime,    \* useState: seconds
  currentEntry,   \* useState: the entry or null
  isSyncing,      \* useState
  syncError,      \* useState: an Error is held
  intervalRef,    \* the tick interval is set
  startTimeRef,   \* useRef
  pausedTimeRef,  \* useRef
  dbTimer,        \* initializeTimer's local dbTimer
  localTimer,     \* initializeTimer's local localTimer
  timerToUse,     \* initializeTimer's local timerToUse
  completedEntry, \* stop's local completedEntry
  stopResult,     \* how the context's stop() calls returned, latest first
  listener,       \* what the change-feed listener did with its latest event
  instants,       \* instants of the start/pause/resume calls of c's session
  ops,            \* number of user operations performed
  storage,        \* storage[c]: 'storage' events of the key delivered to c, unhandled
  cache,          \* RequestCache.cache: key -> CacheEntry
  pending,        \* RequestCache.pending: key -> the request whose promise is held
  requests,       \* the invocations of wrapped functions, in order
  calls,          \* the fetch calls made, in order, with what each returned
  server          \* server[k]: version of the data a wrapped function reads

\* The hook's state and refs, with the history of the session they hold.
hookVars == <<state, elapsedTime, currentEntry, intervalRef, startTimeRef,
              pausedTimeRef, instants>>
flagVars == <<isSyncing, syncError>>
initVars == <<dbTimer, localTimer, timerToUse>>
stopVars == <<completedEntry, stopResult>>
feedVars == <<feed, listener>>
envVars == <<user, device>>
cacheVars == <<cache, pending, requests, calls, server>>

vars == <<now, user, device, local, durable, timeEntries, inflight, feed, pc,
          state, elapsedTime, currentEntry, isSyncing, syncError, intervalRef,
          startTimeRef, pausedTimeRef, dbTimer, localTimer, timerToUse,
          completedEntry, stopResult, listener, instants, ops, storage,
          cache, pending, requests, calls, server>>

Devices == {"d1", "d2"}

\* The cache keys used (fetchProjects, fetchTimeEntries).
Keys == {"projects", "time_entries"}

\* ------------------------------------------------------------------------
\* Stores
\* ------------------------------------------------------------------------
\* getActiveTimer(): the record in the context's localStorage, or null.
getActiveTimer(c) == local[device[c]]

\* saveActiveTimer(timer): setItem, or removeItem for null.
saveActiveTimer(c, timer) == [local EXCEPT ![device[c]] = timer]

\* The context has a realtime channel: it is mounted with a user.
Subscribed(c) == pc[c] \notin {"unmounted", "closed"} /\ user[c]

\* The change feed delivers one event (a record, or Null for DELETE) to
\* every subscribed channel.
Broadcast(ev) ==
  [c \in Contexts |-> IF Subscribed(c) THEN Append(feed[c], ev) ELSE feed[c]]

\* The 'storage' event of the browser: when the code of context c has
\* changed the value of the key, every other mounted context of the same
\* device (its handleStorageChange is registered) is sent the new value;
\* a write that leaves the value as it was sends nothing.
Notified(c) ==
  [t \in Contexts |->
     IF /\ t # c /\ device[t] = device[c]
        /\ pc[t] \notin {"unmounted", "closed"}
        /\ local'[device[c]] # local[device[c]]
     THEN Append(storage[t], local'[device[c]])
     ELSE storage[t]]

\* activeTimerToInsert + upsert + rowToActiveTimer: the row the database holds
\* after an upsert of timer.  created_at and updated_at are not sent: the
\* database sets them (created_at when the row is inserted, updated_at at
\* the write).
DbRow(timer) ==
  Timer(timer.id, timer.projectId, timer.startTime, timer.timerState,
        timer.pausedDuration,
        IF durable = Null THEN now ELSE durable.createdAt,
        now)

\* The state after a delete of the user's row: a DELETE event is emitted
\* only when a row was removed.
FeedAfterDelete == IF durable = Null THEN feed ELSE Broadcast(Null)

\* ------------------------------------------------------------------------
\* Restoring the hook state from a record
\* (initializeTimer step 4, its catch branch, and syncFromStorage)
\* ------------------------------------------------------------------------
\* Mutant: the interval is cleared only when the state is 'idle'.
TickEffectKeptWhilePaused(c) ==
  intervalRef' = [intervalRef EXCEPT ![c] = (state'[c] # "idle")]

\* The tick effect: the interval is set exactly while state is 'running'.
TickEffect(c) ==
  intervalRef' = [intervalRef EXCEPT ![c] = (state'[c] = "running")]

RestoreTimer(c, t) ==
  /\ currentEntry' = [currentEntry EXCEPT ![c] = t]
  /\ IF t.timerState = "running"
     THEN /\ elapsedTime' = [elapsedTime EXCEPT ![c] = FloorSeconds(now - t.startTime)]
          /\ state' = [state EXCEPT ![c] = "running"]
          /\ startTimeRef' = [startTimeRef EXCEPT ![c] = t.startTime]
          /\ pausedTimeRef' = [pausedTimeRef EXCEPT ![c] = 0]
     ELSE /\ elapsedTime' = [elapsedTime EXCEPT ![c] = t.pausedDuration]
          /\ state' = [state EXCEPT ![c] = "paused"]
          /\ pausedTimeRef' = [pausedTimeRef EXCEPT ![c] = t.pausedDuration]
          /\ startTimeRef' = [startTimeRef EXCEPT ![c] =
                                now - t.pausedDuration * MILLISECONDS_PER_SECOND]
  /\ instants' = [instants EXCEPT ![c] = <<>>]
  /\ TickEffect(c)

\* setState('idle'); setElapsedTime(0); setCurrentEntry(null);
\* pausedTimeRef.current = 0
GoIdle(c) ==
  /\ state' = [state EXCEPT ![c] = "idle"]
  /\ elapsedTime' = [elapsedTime EXCEPT ![c] = 0]
  /\ currentEntry' = [currentEntry EXCEPT ![c] = Null]
  /\ pausedTimeRef' = [pausedTimeRef EXCEPT ![c] = 0]
  /\ instants' = [instants EXCEPT ![c] = <<>>]
  /\ UNCHANGED startTimeRef
  /\ TickEffect(c)

\* ------------------------------------------------------------------------
\* Initial state
\* ------------------------------------------------------------------------
\* new RequestCache(): both maps are empty; no fetch was made.
CacheEmpty ==
  /\ cache = [k \in Keys |-> Null]
  /\ pending = [k \in Keys |-> 0]
  /\ requests = <<>>
  /\ calls = <<>>
  /\ server = [k \in Keys |-> 0]

\* Records left in the stores by an earlier page load.
EarlierTimer(ts, ua) ==
  Timer(0, "P1", StartNow - 3 * StepMs, ts,
        IF ts = "paused" THEN 1 ELSE 0, 0, ua)

\* updatedAt of the local record left on device d1.
LocalStamp == StartNow - 2 * StepMs

InitLocal == {Null, EarlierTimer("running", LocalStamp)}

\* The durable row: none, older, as old as, newer than the local record, or
\* not updated for more than 24 hours.
InitDurable ==
  {Null} \cup
  {EarlierTimer("paused", ua) :
     ua \in {StepMs, LocalStamp - StepMs, LocalStamp, LocalStamp + StepMs}}

Init ==
  /\ now = StartNow
  /\ user \in {[c \in Contexts |-> TRUE], [c \in Contexts |-> c # "A"]}
  /\ device = [c \in Contexts |-> IF c = "A" THEN "d1" ELSE "d2"]
  /\ local \in {[d \in Devices |-> IF d = "d1" THEN l ELSE Null] : l \in InitLocal}
  /\ durable \in InitDurable
  /\ timeEntries = {}
  /\ storage = [c \in Contexts |-> <<>>]
  /\ CacheEmpty
  /\ inflight = {}
  /\ feed = [c \in Contexts |-> <<>>]
  /\ pc = [c \in Contexts |-> IF c \in Open THEN "unmounted" ELSE "closed"]
  /\ state = [c \in Contexts |-> "idle"]
  /\ elapsedTime = [c \in Contexts |-> 0]
  /\ currentEntry = [c \in Contexts |-> Null]
  /\ isSyncing = [c \in Contexts |-> FALSE]
  /\ syncError = [c \in Contexts |-> FALSE]
  /\ intervalRef = [c \in Contexts |-> FALSE]
  /\ startTimeRef = [c \in Contexts |-> 0]
  /\ pausedTimeRef = [c \in Contexts |-> 0]
  /\ dbTimer = [c \in Contexts |-> Null]
  /\ localTimer = [c \in Contexts |-> Null]
  /\ timerToUse = [c \in Contexts |-> Null]
  /\ completedEntry = [c \in Contexts |-> Null]
  /\ stopResult = [c \in Contexts |-> <<>>]
  /\ listener = [c \in Contexts |-> "none"]
  /\ instants = [c \in Contexts |-> <<>>]
  /\ ops = 0

\* ------------------------------------------------------------------------
\* Clock
\* ------------------------------------------------------------------------
Advance ==
  /\ now < MaxNow
  /\ now' = now + StepMs
  /\ UNCHANGED <<user, device, storage, cacheVars, local, durable, timeEntries, inflight, feed, pc,
                 hookVars, flagVars, initVars, stopVars, listener, ops>>

\* ------------------------------------------------------------------------
\* Mount and startup reconciliation (initializeTimer)
\* ------------------------------------------------------------------------
\* First render and effects.  Without a user initializeTimer sets the idle
\* state and returns; with a user it calls getActiveTimerFromDb and awaits,
\* and the realtime channel is subscribed.
Mount(c) ==
  /\ pc[c] = "unmounted"
  /\ pc' = [pc EXCEPT ![c] = IF user[c] THEN "init_load" ELSE "ready"]
  /\ IF user[c]
     THEN UNCHANGED <<state, elapsedTime, currentEntry>>
     ELSE /\ state' = [state EXCEPT ![c] = "idle"]
          /\ elapsedTime' = [elapsedTime EXCEPT ![c] = 0]
          /\ currentEntry' = [currentEntry EXCEPT ![c] = Null]
  /\ TickEffect(c)
  /\ UNCHANGED <<now, user, device, cacheVars, local, durable, timeEntries, inflight, feed,
                 startTimeRef, pausedTimeRef, instants, flagVars, initVars, stopVars,
                 listener, ops>>
  /\ storage' = Notified(c)

\* getActiveTimerFromDb: the pairs <<returned timer, row afterwards>>.
\* A failed request returns null (the catch); no row returns null; a row
\* not updated for more than STALE_TIMER_THRESHOLD is deleted and null is
\* returned (a failed delete is caught and returns null as well); any
\* other row is returned.
\* Mutant: a row exactly STALE_TIMER_THRESHOLD old counts as stale.
IsStaleAtThreshold(timer) == now - timer.updatedAt >= STALE_TIMER_THRESHOLD

IsStale(timer) == now - timer.updatedAt > STALE_TIMER_THRESHOLD

getActiveTimerFromDb ==
  {<<Null, durable>>} \cup
  (IF durable = Null THEN {}
   ELSE IF IsStale(durable) THEN {<<Null, Null>>}
   ELSE {<<durable, durable>>})

\* Mutant: the comparison is >=, so a tie goes to the database record.
ConflictWinnerGe(db, loc) ==
  IF db # Null /\ loc # Null
  THEN (IF db.updatedAt >= loc.updatedAt THEN "db" ELSE "local")
  ELSE IF db # Null THEN "db"
  ELSE IF loc # Null THEN "local"
  ELSE "none"

\* Mutant: with both records present a winning local record is not
\* propagated.
ConflictWinnerNoPropagation(db, loc) ==
  IF db # Null /\ loc # Null
  THEN (IF db.updatedAt > loc.updatedAt THEN "db" ELSE "none")
  ELSE IF db # Null THEN "db"
  ELSE IF loc # Null THEN "local"
  ELSE "none"

\* Conflict resolution (initializeTimer step 3): which record is used.
\* With both present the database record is used when its updatedAt is
\* greater than the local one (localTimer.updatedAt || 0), the local record
\* otherwise; with one present, that one (dbTimer || localTimer).
ConflictWinner(db, loc) ==
  IF db # Null /\ loc # Null
  THEN (IF db.updatedAt > loc.updatedAt THEN "db" ELSE "local")
  ELSE IF db # Null THEN "db"
  ELSE IF loc # Null THEN "local"
  ELSE "none"

\* Mutant: the database record is not copied to localStorage.
SyncToLocalSkipped(c, db) == UNCHANGED local

\* "saveActiveTimer(dbTimer); // Update localStorage"
SyncToLocal(c, db) == local' = saveActiveTimer(c, db)

\* The code after `await getActiveTimerFromDb()` up to the next await or
\* the end of initializeTimer.
InitResolve(c, db, loc) ==
  LET w == ConflictWinner(db, loc) IN
  /\ dbTimer' = [dbTimer EXCEPT ![c] = db]
  /\ localTimer' = [localTimer EXCEPT ![c] = loc]
  /\ CASE w = "db" ->
            \* saveActiveTimer(dbTimer), then step 4
            /\ timerToUse' = [timerToUse EXCEPT ![c] = db]
            /\ SyncToLocal(c, db)
            /\ RestoreTimer(c, db)
            /\ pc' = [pc EXCEPT ![c] = "ready"]
       [] w = "local" ->
            \* await saveActiveTimerToDb(localTimer)
            /\ timerToUse' = [timerToUse EXCEPT ![c] = loc]
            /\ pc' = [pc EXCEPT ![c] = "init_save"]
            /\ UNCHANGED <<local, hookVars>>
       [] w = "none" ->
            /\ timerToUse' = [timerToUse EXCEPT ![c] = Null]
            /\ pc' = [pc EXCEPT ![c] = "ready"]
            /\ UNCHANGED <<local, hookVars>>

InitLoad(c) ==
  /\ pc[c] = "init_load"
  /\ \E out \in getActiveTimerFromDb :
       /\ durable' = out[2]
       /\ feed' = IF out[2] = durable THEN feed ELSE FeedAfterDelete
       /\ InitResolve(c, out[1], getActiveTimer(c))
  /\ UNCHANGED <<now, user, device, cacheVars, timeEntries, inflight, flagVars, stopVars, listener, ops>>
  /\ storage' = Notified(c)

\* Mutant: the catch of initializeTimer falls back to localStorage
\* without setting syncError.
InitSaveSwallowsError(c) ==
  /\ pc[c] = "init_save"
  /\ pc' = [pc EXCEPT ![c] = "ready"]
  /\ \/ /\ durable' = DbRow(timerToUse[c])
        /\ feed' = Broadcast(durable')
        /\ RestoreTimer(c, timerToUse[c])
        /\ UNCHANGED syncError
     \/ /\ IF getActiveTimer(c) # Null
           THEN RestoreTimer(c, getActiveTimer(c))
           ELSE UNCHANGED hookVars
        /\ UNCHANGED <<durable, feed, syncError>>
  /\ UNCHANGED <<now, user, device, cacheVars, local, timeEntries, inflight, isSyncing,
                 initVars, stopVars, listener, ops>>
  /\ storage' = Notified(c)

\* `await saveActiveTimerToDb(localTimer)` answers.  On success step 4
\* restores timerToUse.  On failure the catch sets syncError and restores
\* from what localStorage holds then.
InitSave(c) ==
  /\ pc[c] = "init_save"
  /\ pc' = [pc EXCEPT ![c] = "ready"]
  /\ \/ /\ durable' = DbRow(timerToUse[c])
        /\ feed' = Broadcast(durable')
        /\ RestoreTimer(c, timerToUse[c])
        /\ UNCHANGED syncError
     \/ /\ syncError' = [syncError EXCEPT ![c] = TRUE]
        /\ IF getActiveTimer(c) # Null
           THEN RestoreTimer(c, getActiveTimer(c))
           ELSE UNCHANGED hookVars
        /\ UNCHANGED <<durable, feed>>
  /\ UNCHANGED <<now, user, device, cacheVars, local, timeEntries, inflight, isSyncing,
                 initVars, stopVars, listener, ops>>
  /\ storage' = Notified(c)

\* ------------------------------------------------------------------------
\* Background sync of start / pause / resume, and reset's delete
\* ------------------------------------------------------------------------
\* A state setter called by a promise callback after the component was
\* unmounted changes nothing.
SetFlag(flag, c, v) == IF pc[c] = "closed" THEN flag ELSE [flag EXCEPT ![c] = v]

\* `if (user) { setIsSyncing(true); saveActiveTimerToDb(entry)... }`
SyncToDb(c, entry) ==
  IF user[c]
  THEN /\ isSyncing' = [isSyncing EXCEPT ![c] = TRUE]
       /\ inflight' = inflight \cup {[kind |-> "upsert", ctx |-> c, timer |-> entry]}
  ELSE UNCHANGED <<isSyncing, inflight>>

\* Mutant: a failed upsert rolls the session back.
UpsertDoneRollsBack(m) ==
  /\ m \in inflight /\ m.kind = "upsert"
  /\ inflight' = inflight \ {m}
  /\ isSyncing' = SetFlag(isSyncing, m.ctx, FALSE)
  /\ \/ /\ durable' = DbRow(m.timer)
        /\ feed' = Broadcast(durable')
        /\ syncError' = SetFlag(syncError, m.ctx, FALSE)
        /\ UNCHANGED <<local, hookVars>>
     \/ /\ syncError' = [syncError EXCEPT ![m.ctx] = TRUE]
        /\ GoIdle(m.ctx)
        /\ local' = saveActiveTimer(m.ctx, Null)
        /\ UNCHANGED <<durable, feed>>
  /\ UNCHANGED <<now, user, device, cacheVars, timeEntries, pc, initVars, stopVars,
                 listener, ops>>
  /\ storage' = Notified(m.ctx)

\* saveActiveTimerToDb answers: .then clears isSyncing and syncError,
\* .catch clears isSyncing and sets syncError.
UpsertDone(m) ==
  /\ m \in inflight /\ m.kind = "upsert"
  /\ inflight' = inflight \ {m}
  /\ isSyncing' = SetFlag(isSyncing, m.ctx, FALSE)
  /\ \/ /\ durable' = DbRow(m.timer)
        /\ feed' = Broadcast(durable')
        /\ syncError' = SetFlag(syncError, m.ctx, FALSE)
     \/ /\ syncError' = SetFlag(syncError, m.ctx, TRUE)
        /\ UNCHANGED <<durable, feed>>
  /\ UNCHANGED <<now, user, device, cacheVars, local, timeEntries, pc, hookVars, initVars,
                 stopVars, listener, ops>>
  /\ storage' = Notified(m.ctx)

\* reset's clearActiveTimerFromDb answers; its failure is only logged.
DeleteDone(m) ==
  /\ m \in inflight /\ m.kind = "delete"
  /\ inflight' = inflight \ {m}
  /\ \/ /\ durable' = Null
        /\ feed' = FeedAfterDelete
     \/ UNCHANGED <<durable, feed>>
  /\ UNCHANGED <<now, user, device, cacheVars, local, timeEntries, pc, hookVars, flagVars,
                 initVars, stopVars, listener, ops>>
  /\ storage' = Notified(m.ctx)

\* ------------------------------------------------------------------------
\* start / pause / resume / reset
\* ------------------------------------------------------------------------
Mounted(c) == pc[c] \notin {"unmounted", "closed"}

\* History: the instant of a pause() or resume() is added to the instants
\* of a session this context started; a session adopted from a store or
\* the change feed has no known instants.
Noted(seq) == IF seq = <<>> THEN <<>> ELSE Append(seq, now)

\* The user calls an operation only when no startup or stop() of the
\* context is awaiting; change-feed events, ticks and database answers
\* arrive at any time.
Ready(c) == pc[c] = "ready"

\* Mutant: start() does not look for an active timer in localStorage.
startUnguarded(c, projectId) ==
  /\ Ready(c) /\ ops < MaxOps
  /\ LET newEntry == Timer(now, projectId, now, "running", 0, now, now) IN
       /\ currentEntry' = [currentEntry EXCEPT ![c] = newEntry]
       /\ state' = [state EXCEPT ![c] = "running"]
       /\ elapsedTime' = [elapsedTime EXCEPT ![c] = 0]
       /\ startTimeRef' = [startTimeRef EXCEPT ![c] = now]
       /\ pausedTimeRef' = [pausedTimeRef EXCEPT ![c] = 0]
       /\ instants' = [instants EXCEPT ![c] = <<now>>]
       /\ TickEffect(c)
       /\ local' = saveActiveTimer(c, newEntry)
       /\ SyncToDb(c, newEntry)
  /\ ops' = ops + 1
  /\ UNCHANGED <<now, user, device, cacheVars, durable, timeEntries, feed, pc, syncError,
                 initVars, stopVars, listener>>
  /\ storage' = Notified(c)

\* Mutant: start() dispatches the upsert without saving to localStorage.
startSkipsLocal(c, projectId) ==
  /\ Ready(c) /\ ops < MaxOps
  /\ getActiveTimer(c) = Null
  /\ LET newEntry == Timer(now, projectId, now, "running", 0, now, now) IN
       /\ currentEntry' = [currentEntry EXCEPT ![c] = newEntry]
       /\ state' = [state EXCEPT ![c] = "running"]
       /\ elapsedTime' = [elapsedTime EXCEPT ![c] = 0]
       /\ startTimeRef' = [startTimeRef EXCEPT ![c] = now]
       /\ pausedTimeRef' = [pausedTimeRef EXCEPT ![c] = 0]
       /\ instants' = [instants EXCEPT ![c] = <<now>>]
       /\ TickEffect(c)
       /\ SyncToDb(c, newEntry)
  /\ ops' = ops + 1
  /\ UNCHANGED <<now, user, device, cacheVars, local, durable, timeEntries, feed, pc,
                 syncError, initVars, stopVars, listener>>
  /\ storage' = Notified(c)

\* start(projectId): returns at once when localStorage holds a timer.
start(c, projectId) ==
  /\ Ready(c) /\ ops < MaxOps
  /\ getActiveTimer(c) = Null
  /\ LET newEntry == Timer(now, projectId, now, "running", 0, now, now) IN
       /\ currentEntry' = [currentEntry EXCEPT ![c] = newEntry]
       /\ state' = [state EXCEPT ![c] = "running"]
       /\ elapsedTime' = [elapsedTime EXCEPT ![c] = 0]
       /\ startTimeRef' = [startTimeRef EXCEPT ![c] = now]
       /\ pausedTimeRef' = [pausedTimeRef EXCEPT ![c] = 0]
       /\ instants' = [instants EXCEPT ![c] = <<now>>]
       /\ TickEffect(c)
       /\ local' = saveActiveTimer(c, newEntry)
       /\ SyncToDb(c, newEntry)
  /\ ops' = ops + 1
  /\ UNCHANGED <<now, user, device, cacheVars, durable, timeEntries, feed, pc, syncError,
                 initVars, stopVars, listener>>
  /\ storage' = Notified(c)

\* pause(): returns at once unless running with an entry.
pause(c) ==
  /\ Ready(c) /\ ops < MaxOps
  /\ state[c] = "running" /\ currentEntry[c] # Null
  /\ LET updatedEntry == [currentEntry[c] EXCEPT !.timerState = "paused",
                                                 !.pausedDuration = elapsedTime[c],
                                                 !.updatedAt = now] IN
       /\ state' = [state EXCEPT ![c] = "paused"]
       /\ pausedTimeRef' = [pausedTimeRef EXCEPT ![c] = elapsedTime[c]]
       /\ instants' = [instants EXCEPT ![c] = Noted(instants[c])]
       /\ local' = saveActiveTimer(c, updatedEntry)
       /\ currentEntry' = [currentEntry EXCEPT ![c] = updatedEntry]
       /\ TickEffect(c)
       /\ SyncToDb(c, updatedEntry)
  /\ ops' = ops + 1
  /\ UNCHANGED <<now, user, device, cacheVars, durable, timeEntries, feed, pc, elapsedTime,
                 startTimeRef, syncError, initVars, stopVars, listener>>
  /\ storage' = Notified(c)

\* Mutant: resume() keeps the startTime of the paused record.
resumeNoRebase(c) ==
  /\ Ready(c) /\ ops < MaxOps
  /\ state[c] = "paused" /\ currentEntry[c] # Null
  /\ LET updatedEntry == [currentEntry[c] EXCEPT !.timerState = "running",
                                                 !.pausedDuration = pausedTimeRef[c],
                                                 !.updatedAt = now] IN
       /\ startTimeRef' = [startTimeRef EXCEPT ![c] = currentEntry[c].startTime]
       /\ state' = [state EXCEPT ![c] = "running"]
       /\ instants' = [instants EXCEPT ![c] = Noted(instants[c])]
       /\ local' = saveActiveTimer(c, updatedEntry)
       /\ currentEntry' = [currentEntry EXCEPT ![c] = updatedEntry]
       /\ TickEffect(c)
       /\ SyncToDb(c, updatedEntry)
  /\ ops' = ops + 1
  /\ UNCHANGED <<now, user, device, cacheVars, durable, timeEntries, feed, pc, elapsedTime,
                 pausedTimeRef, syncError, initVars, stopVars, listener>>
  /\ storage' = Notified(c)

\* resume(): returns at once unless paused with an entry.
resume(c) ==
  /\ Ready(c) /\ ops < MaxOps
  /\ state[c] = "paused" /\ currentEntry[c] # Null
  /\ LET rebased == now - pausedTimeRef[c] * MILLISECONDS_PER_SECOND
         updatedEntry == [currentEntry[c] EXCEPT !.startTime = rebased,
                                                 !.timerState = "running",
                                                 !.pausedDuration = pausedTimeRef[c],
                                                 !.updatedAt = now] IN
       /\ startTimeRef' = [startTimeRef EXCEPT ![c] = rebased]
       /\ state' = [state EXCEPT ![c] = "running"]
       /\ instants' = [instants EXCEPT ![c] = Noted(instants[c])]
       /\ local' = saveActiveTimer(c, updatedEntry)
       /\ currentEntry' = [currentEntry EXCEPT ![c] = updatedEntry]
       /\ TickEffect(c)
       /\ SyncToDb(c, updatedEntry)
  /\ ops' = ops + 1
  /\ UNCHANGED <<now, user, device, cacheVars, durable, timeEntries, feed, pc, elapsedTime,
                 pausedTimeRef, syncError, initVars, stopVars, listener>>
  /\ storage' = Notified(c)

\* Mutant: reset() leaves localStorage alone.
resetKeepsLocal(c) ==
  /\ Ready(c) /\ ops < MaxOps
  /\ inflight' = IF user[c]
                 THEN inflight \cup {[kind |-> "delete", ctx |-> c, timer |-> Null]}
                 ELSE inflight
  /\ GoIdle(c)
  /\ syncError' = [syncError EXCEPT ![c] = FALSE]
  /\ ops' = ops + 1
  /\ UNCHANGED <<now, user, device, cacheVars, local, durable, timeEntries, feed, pc,
                 isSyncing, initVars, stopVars, listener>>
  /\ storage' = Notified(c)

\* reset(): clears localStorage, dispatches the delete, goes idle.
reset(c) ==
  /\ Ready(c) /\ ops < MaxOps
  /\ local' = saveActiveTimer(c, Null)
  /\ inflight' = IF user[c]
                 THEN inflight \cup {[kind |-> "delete", ctx |-> c, timer |-> Null]}
                 ELSE inflight
  /\ GoIdle(c)
  /\ syncError' = [syncError EXCEPT ![c] = FALSE]
  /\ ops' = ops + 1
  /\ UNCHANGED <<now, user, device, cacheVars, durable, timeEntries, feed, pc, isSyncing,
                 initVars, stopVars, listener>>
  /\ storage' = Notified(c)

\* Mutant: the interval callback also saves the session, stamped with the
\* instant of the tick, to localStorage.
tickWritesStore(c) ==
  /\ Mounted(c) /\ intervalRef[c]
  /\ elapsedTime' = [elapsedTime EXCEPT ![c] = FloorSeconds(now - startTimeRef[c])]
  /\ local' = [local EXCEPT ![device[c]] =
                 IF currentEntry[c] = Null THEN Null
                 ELSE [currentEntry[c] EXCEPT !.updatedAt = now]]
  /\ UNCHANGED <<now, user, device, cacheVars, durable, timeEntries, inflight, feed, pc,
                 state, currentEntry, intervalRef, startTimeRef, pausedTimeRef,
                 instants, flagVars, initVars, stopVars, listener, ops>>
  /\ storage' = Notified(c)

\* Mutant: the interval callback adds the banked seconds to the seconds
\* since startTimeRef.
tickAddsPaused(c) ==
  /\ Mounted(c) /\ intervalRef[c]
  /\ elapsedTime' = [elapsedTime EXCEPT ![c] =
                       FloorSeconds(now - startTimeRef[c]) + pausedTimeRef[c]]
  /\ UNCHANGED <<now, user, device, cacheVars, local, durable, timeEntries, inflight, feed, pc,
                 state, currentEntry, intervalRef, startTimeRef, pausedTimeRef,
                 instants, flagVars, initVars, stopVars, listener, ops>>
  /\ storage' = Notified(c)

\* The interval callback: elapsed seconds since startTimeRef.
tick(c) ==
  /\ Mounted(c) /\ intervalRef[c]
  /\ elapsedTime' = [elapsedTime EXCEPT ![c] = FloorSeconds(now - startTimeRef[c])]
  /\ UNCHANGED <<now, user, device, cacheVars, local, durable, timeEntries, inflight, feed, pc,
                 state, currentEntry, intervalRef, startTimeRef, pausedTimeRef,
                 instants, flagVars, initVars, stopVars, listener, ops>>
  /\ storage' = Notified(c)

\* ------------------------------------------------------------------------
\* Change feed listener (the callback given to subscribeToActiveTimer)
\* ------------------------------------------------------------------------
\* Mutant: no event is recognised as the context's own.
IsOwnChangeNever(loc, updatedTimer) == FALSE

\* "Ignore if this is our own change (same updatedAt timestamp)"
IsOwnChange(loc, updatedTimer) ==
  loc # Null /\ updatedTimer # Null /\ loc.updatedAt = updatedTimer.updatedAt

\* Mutant: the DELETE branch leaves localStorage alone.
OnTimerClearedKeepsLocal(c) ==
  /\ GoIdle(c)
  /\ UNCHANGED local

\* "Timer was cleared on another device": the DELETE branch.
OnTimerCleared(c) ==
  /\ GoIdle(c)
  /\ local' = saveActiveTimer(c, Null)

\* syncFromStorage(timerData) for a record: the hook state is restored
\* from it; localStorage is not written.
syncFromStorage(c, timerData) ==
  /\ RestoreTimer(c, timerData)
  /\ UNCHANGED local

FeedEvent(c) ==
  /\ Subscribed(c) /\ feed[c] # <<>>
  /\ feed' = [feed EXCEPT ![c] = Tail(feed[c])]
  /\ LET updatedTimer == Head(feed[c]) IN
       IF IsOwnChange(getActiveTimer(c), updatedTimer)
       THEN /\ listener' = [listener EXCEPT ![c] = "ignored"]
            /\ UNCHANGED <<local, hookVars>>
       ELSE IF updatedTimer = Null
       THEN /\ listener' = [listener EXCEPT ![c] = "cleared"]
            /\ OnTimerCleared(c)
       ELSE /\ listener' = [listener EXCEPT ![c] = "synced"]
            /\ syncFromStorage(c, updatedTimer)
  /\ UNCHANGED <<now, user, device, cacheVars, durable, timeEntries, inflight, pc, flagVars,
                 initVars, stopVars, ops>>
  /\ storage' = Notified(c)

\* ------------------------------------------------------------------------
\* Other tabs of the device (handleStorageChange)
\* ------------------------------------------------------------------------
\* Mutant: the handler makes the listener's test first (the record in
\* localStorage against the notified one) and ignores an equal updatedAt.
StorageEventComparesStamp(c) ==
  /\ Mounted(c) /\ storage[c] # <<>>
  /\ storage' = [storage EXCEPT ![c] = Tail(storage[c])]
  /\ LET newActiveTimer == Head(storage[c]) IN
       IF IsOwnChange(getActiveTimer(c), newActiveTimer)
       THEN UNCHANGED <<local, hookVars>>
       ELSE IF newActiveTimer = Null
       THEN GoIdle(c) /\ UNCHANGED local
       ELSE syncFromStorage(c, newActiveTimer)
  /\ UNCHANGED <<now, user, device, cacheVars, durable, timeEntries, inflight, feed,
                 pc, flagVars, initVars, stopVars, listener, ops>>

\* A 'storage' event of the key is handled: the new value is parsed and
\* given to syncFromStorage, whatever the context holds.
StorageEvent(c) ==
  /\ Mounted(c) /\ storage[c] # <<>>
  /\ storage' = [storage EXCEPT ![c] = Tail(storage[c])]
  /\ LET newActiveTimer == Head(storage[c]) IN
       IF newActiveTimer = Null
       THEN GoIdle(c) /\ UNCHANGED local
       ELSE syncFromStorage(c, newActiveTimer)
  /\ UNCHANGED <<now, user, device, cacheVars, durable, timeEntries, inflight, feed,
                 pc, flagVars, initVars, stopVars, listener, ops>>

\* ------------------------------------------------------------------------
\* Unmount (the cleanups of the effects)
\* ------------------------------------------------------------------------
\* Mutant: the cleanup of the tick effect is missing.
UnmountKeepsInterval(c) ==
  /\ Ready(c)
  /\ pc' = [pc EXCEPT ![c] = "closed"]
  /\ feed' = [feed EXCEPT ![c] = <<>>]
  /\ storage' = [storage EXCEPT ![c] = <<>>]
  /\ UNCHANGED <<now, user, device, cacheVars, local, durable, timeEntries, inflight,
                 hookVars, flagVars, initVars, stopVars, listener, ops>>

\* The tab is closed or the component unmounted, when no startup or
\* stop() of the context is awaiting: the channel is unsubscribed, the
\* storage listener removed and the interval cleared.  The requests of
\* start / pause / resume / reset that are not answered yet stay in flight.
Unmount(c) ==
  /\ Ready(c)
  /\ pc' = [pc EXCEPT ![c] = "closed"]
  /\ intervalRef' = [intervalRef EXCEPT ![c] = FALSE]
  /\ feed' = [feed EXCEPT ![c] = <<>>]
  /\ storage' = [storage EXCEPT ![c] = <<>>]
  /\ UNCHANGED <<now, user, device, cacheVars, local, durable, timeEntries, inflight,
                 state, elapsedTime, currentEntry, startTimeRef, pausedTimeRef,
                 instants, flagVars, initVars, stopVars, listener, ops>>

\* ------------------------------------------------------------------------
\* stop
\* ------------------------------------------------------------------------
\* duration: entry.duration || null (timeEntryToInsert)
NoDuration == 0 - 1

\* timeEntryToInsert: the row of time_entries written for an entry.
timeEntryToInsert(entry) ==
  [id |-> entry.id, projectId |-> entry.projectId, startTime |-> entry.startTime,
   endTime |-> entry.endTime,
   duration |-> IF entry.duration = 0 THEN NoDuration ELSE entry.duration]

\* The two latest outcomes of stop(), latest first.
Logged(c, outcome) ==
  [stopResult EXCEPT ![c] = IF stopResult[c] = <<>> THEN <<outcome>>
                            ELSE <<outcome, stopResult[c][1]>>]

\* Mutant: stop() clears localStorage before the entry is saved.
stopClearsFirst(c) ==
  /\ pc[c] = "ready" /\ ops < MaxOps
  /\ state[c] # "idle" /\ currentEntry[c] # Null
  /\ completedEntry' = [completedEntry EXCEPT ![c] =
       [id |-> currentEntry[c].id, projectId |-> currentEntry[c].projectId,
        startTime |-> currentEntry[c].startTime, endTime |-> now,
        duration |-> elapsedTime[c], updatedAt |-> now]]
  /\ isSyncing' = [isSyncing EXCEPT ![c] = TRUE]
  /\ pc' = [pc EXCEPT ![c] = "stop_save"]
  /\ ops' = ops + 1
  /\ local' = [local EXCEPT ![device[c]] = Null]
  /\ UNCHANGED <<now, user, device, cacheVars, durable, timeEntries, inflight, feed,
                 hookVars, syncError, initVars, stopResult, listener>>
  /\ storage' = Notified(c)

\* Mutant: stop() also stamps the session record in localStorage with the
\* instant of the attempt.
stopStampsRecord(c) ==
  /\ Ready(c) /\ ops < MaxOps
  /\ state[c] # "idle" /\ currentEntry[c] # Null
  /\ completedEntry' = [completedEntry EXCEPT ![c] =
       [id |-> currentEntry[c].id, projectId |-> currentEntry[c].projectId,
        startTime |-> currentEntry[c].startTime, endTime |-> now,
        duration |-> elapsedTime[c], updatedAt |-> now]]
  /\ isSyncing' = [isSyncing EXCEPT ![c] = TRUE]
  /\ pc' = [pc EXCEPT ![c] = "stop_save"]
  /\ ops' = ops + 1
  /\ local' = saveActiveTimer(c, [currentEntry[c] EXCEPT !.updatedAt = now])
  /\ UNCHANGED <<now, user, device, cacheVars, durable, timeEntries, inflight, feed,
                 hookVars, syncError, initVars, stopResult, listener>>
  /\ storage' = Notified(c)

\* stop(): returns at once when idle or without an entry; otherwise builds
\* completedEntry and awaits saveTimeEntry(completedEntry).
stop(c) ==
  /\ Ready(c) /\ ops < MaxOps
  /\ state[c] # "idle" /\ currentEntry[c] # Null
  /\ completedEntry' = [completedEntry EXCEPT ![c] =
       [id |-> currentEntry[c].id, projectId |-> currentEntry[c].projectId,
        startTime |-> currentEntry[c].startTime, endTime |-> now,
        duration |-> elapsedTime[c], updatedAt |-> now]]
  /\ isSyncing' = [isSyncing EXCEPT ![c] = TRUE]
  /\ pc' = [pc EXCEPT ![c] = "stop_save"]
  /\ ops' = ops + 1
  /\ UNCHANGED <<now, user, device, cacheVars, local, durable, timeEntries, inflight, feed,
                 hookVars, syncError, initVars, stopResult, listener>>
  /\ storage' = Notified(c)

\* Mutant: the catch of stop() resets the hook state.
StopFailedResets(c, outcome) ==
  /\ isSyncing' = [isSyncing EXCEPT ![c] = FALSE]
  /\ syncError' = [syncError EXCEPT ![c] = TRUE]
  /\ pc' = [pc EXCEPT ![c] = "ready"]
  /\ completedEntry' = [completedEntry EXCEPT ![c] = Null]
  /\ stopResult' = [stopResult EXCEPT ![c] = <<outcome>>]
  /\ state' = [state EXCEPT ![c] = "idle"]
  /\ elapsedTime' = [elapsedTime EXCEPT ![c] = 0]
  /\ currentEntry' = [currentEntry EXCEPT ![c] = Null]
  /\ intervalRef' = [intervalRef EXCEPT ![c] = FALSE]
  /\ UNCHANGED <<startTimeRef, pausedTimeRef, instants>>

\* The catch of stop(): the hook state is kept for a retry.
StopFailed(c, outcome) ==
  /\ isSyncing' = [isSyncing EXCEPT ![c] = FALSE]
  /\ syncError' = [syncError EXCEPT ![c] = TRUE]
  /\ pc' = [pc EXCEPT ![c] = "ready"]
  /\ completedEntry' = [completedEntry EXCEPT ![c] = Null]
  /\ stopResult' = Logged(c, outcome)
  /\ UNCHANGED hookVars

\* "Reset all state" at the end of the try block.
StopSucceeded(c) ==
  /\ GoIdle(c)
  /\ isSyncing' = [isSyncing EXCEPT ![c] = FALSE]
  /\ syncError' = [syncError EXCEPT ![c] = FALSE]
  /\ pc' = [pc EXCEPT ![c] = "ready"]
  /\ completedEntry' = [completedEntry EXCEPT ![c] = Null]
  /\ stopResult' = Logged(c, "saved")

\* The code of stop() after a successful `await saveTimeEntry`:
\* localStorage is cleared, then clearActiveTimerFromDb is awaited when there
\* is a user.
AfterEntrySaved(c) ==
  /\ local' = saveActiveTimer(c, Null)
  /\ IF user[c]
     THEN /\ pc' = [pc EXCEPT ![c] = "stop_clear"]
          /\ UNCHANGED <<hookVars, flagVars, stopVars>>
     ELSE StopSucceeded(c)

\* Mutant: saveTimeEntry inserts without looking for a row of that id.
SaveTimeEntryInsertsAgain(c) ==
  /\ pc[c] = "stop_save"
  /\ \/ /\ user[c]
        /\ timeEntries' = timeEntries \cup {timeEntryToInsert(completedEntry[c])}
        /\ AfterEntrySaved(c)
     \/ /\ StopFailed(c, "save_failed")
        /\ UNCHANGED <<timeEntries, local>>
  /\ UNCHANGED <<now, user, device, cacheVars, durable, inflight, feed, initVars, listener, ops>>
  /\ storage' = Notified(c)

\* `await saveTimeEntry(completedEntry)` answers.  It throws without an
\* authenticated user (getCurrentUserId) or when the database fails;
\* otherwise the row with the entry's id is updated or inserted.
SaveTimeEntry(c) ==
  /\ pc[c] = "stop_save"
  /\ \/ /\ user[c]
        /\ timeEntries' = {e \in timeEntries : e.id # completedEntry[c].id}
                            \cup {timeEntryToInsert(completedEntry[c])}
        /\ AfterEntrySaved(c)
     \/ /\ StopFailed(c, "save_failed")
        /\ UNCHANGED <<timeEntries, local>>
  /\ UNCHANGED <<now, user, device, cacheVars, durable, inflight, feed, initVars, listener, ops>>
  /\ storage' = Notified(c)

\* `await clearActiveTimerFromDb()` of stop() answers.
ClearActiveTimer(c) ==
  /\ pc[c] = "stop_clear"
  /\ \/ /\ durable' = Null
        /\ feed' = FeedAfterDelete
        /\ StopSucceeded(c)
     \/ /\ StopFailed(c, "clear_failed")
        /\ UNCHANGED <<durable, feed>>
  /\ UNCHANGED <<now, user, device, cacheVars, local, timeEntries, inflight, initVars, listener, ops>>
  /\ storage' = Notified(c)

Next ==
  \/ Advance
  \/ \E c \in Contexts : Mount(c)
  \/ \E c \in Contexts : InitLoad(c)
  \/ \E c \in Contexts : InitSave(c)
  \/ \E m \in inflight : UpsertDone(m)
  \/ \E m \in inflight : DeleteDone(m)
  \/ \E c \in Contexts : FeedEvent(c)
  \/ \E c \in Contexts, p \in Projects : start(c, p)
  \/ \E c \in Contexts : pause(c)
  \/ \E c \in Contexts : resume(c)
  \/ \E c \in Contexts : reset(c)
  \/ \E c \in Contexts : tick(c)
  \/ \E c \in Contexts : stop(c)
  \/ \E c \in Contexts : SaveTimeEntry(c)
  \/ \E c \in Contexts : ClearActiveTimer(c)

Spec == Init /\ [][Next]_vars

\* ------------------------------------------------------------------------
\* Startup over an abandoned session
\* ------------------------------------------------------------------------
\* At StartNow a record stamped AbandonedStamp is exactly
\* STALE_TIMER_THRESHOLD old; one clock advance later it is older.
AbandonedStamp == StartNow - STALE_TIMER_THRESHOLD

\* A session started at instant at and not touched since.
Abandoned(at) == Timer(at, "P1", at, "running", 0, at, at)

\* The durable row holds an abandoned session, at the threshold or past
\* it; the local store of the device is empty or still holds its copy.
InitStale ==
  /\ now = StartNow
  /\ user = [c \in Contexts |-> TRUE]
  /\ device = [c \in Contexts |-> IF c = "A" THEN "d1" ELSE "d2"]
  /\ durable \in {Abandoned(AbandonedStamp), Abandoned(StepMs)}
  /\ local \in {[d \in Devices |-> IF d = "d1" THEN l ELSE Null] :
                  l \in {Null, durable}}
  /\ timeEntries = {}
  /\ storage = [c \in Contexts |-> <<>>]
  /\ CacheEmpty
  /\ inflight = {}
  /\ feed = [c \in Contexts |-> <<>>]
  /\ pc = [c \in Contexts |-> IF c \in Open THEN "unmounted" ELSE "closed"]
  /\ state = [c \in Contexts |-> "idle"]
  /\ elapsedTime = [c \in Contexts |-> 0]
  /\ currentEntry = [c \in Contexts |-> Null]
  /\ isSyncing = [c \in Contexts |-> FALSE]
  /\ syncError = [c \in Contexts |-> FALSE]
  /\ intervalRef = [c \in Contexts |-> FALSE]
  /\ startTimeRef = [c \in Contexts |-> 0]
  /\ pausedTimeRef = [c \in Contexts |-> 0]
  /\ dbTimer = [c \in Contexts |-> Null]
  /\ localTimer = [c \in Contexts |-> Null]
  /\ timerToUse = [c \in Contexts |-> Null]
  /\ completedEntry = [c \in Contexts |-> Null]
  /\ stopResult = [c \in Contexts |-> <<>>]
  /\ listener = [c \in Contexts |-> "none"]
  /\ instants = [c \in Contexts |-> <<>>]
  /\ ops = 0

SpecStale == InitStale /\ [][Next]_vars

\* ------------------------------------------------------------------------
\* One session from start to stop
\* ------------------------------------------------------------------------
\* Both stores are empty and the user is signed in.  The clock begins
\* SessionSteps seconds before MaxNow and the operation counter SessionOps
\* below MaxOps: the context can start, pause, resume and stop a session
\* with whole seconds between the calls.
InitSession ==
  /\ now = MaxNow - SessionSteps * MILLISECONDS_PER_SECOND
  /\ user = [c \in Contexts |-> TRUE]
  /\ device = [c \in Contexts |-> IF c = "A" THEN "d1" ELSE "d2"]
  /\ durable = Null
  /\ local = [d \in Devices |-> Null]
  /\ timeEntries = {}
  /\ storage = [c \in Contexts |-> <<>>]
  /\ CacheEmpty
  /\ inflight = {}
  /\ feed = [c \in Contexts |-> <<>>]
  /\ pc = [c \in Contexts |-> IF c \in Open THEN "unmounted" ELSE "closed"]
  /\ state = [c \in Contexts |-> "idle"]
  /\ elapsedTime = [c \in Contexts |-> 0]
  /\ currentEntry = [c \in Contexts |-> Null]
  /\ isSyncing = [c \in Contexts |-> FALSE]
  /\ syncError = [c \in Contexts |-> FALSE]
  /\ intervalRef = [c \in Contexts |-> FALSE]
  /\ startTimeRef = [c \in Contexts |-> 0]
  /\ pausedTimeRef = [c \in Contexts |-> 0]
  /\ dbTimer = [c \in Contexts |-> Null]
  /\ localTimer = [c \in Contexts |-> Null]
  /\ timerToUse = [c \in Contexts |-> Null]
  /\ completedEntry = [c \in Contexts |-> Null]
  /\ stopResult = [c \in Contexts |-> <<>>]
  /\ listener = [c \in Contexts |-> "none"]
  /\ instants = [c \in Contexts |-> <<>>]
  /\ ops = MaxOps - SessionOps

\* The clock advances by one second (a tick is due; it may fire late).
AdvanceSecond ==
  /\ now + MILLISECONDS_PER_SECOND <= MaxNow
  /\ now' = now + MILLISECONDS_PER_SECOND
  /\ UNCHANGED <<user, device, storage, cacheVars, local, durable, timeEntries, inflight, feed, pc,
                 hookVars, flagVars, initVars, stopVars, listener, ops>>

\* With empty stores startup never awaits an upsert: every action but
\* InitSave can occur.
NextSession ==
  \/ AdvanceSecond
  \/ \E c \in Contexts : Mount(c)
  \/ \E c \in Contexts : InitLoad(c)
  \/ \E m \in inflight : UpsertDone(m)
  \/ \E m \in inflight : DeleteDone(m)
  \/ \E c \in Contexts : FeedEvent(c)
  \/ \E c \in Contexts, p \in Projects : start(c, p)
  \/ \E c \in Contexts : pause(c)
  \/ \E c \in Contexts : resume(c)
  \/ \E c \in Contexts : reset(c)
  \/ \E c \in Contexts : tick(c)
  \/ \E c \in Contexts : stop(c)
  \/ \E c \in Contexts : SaveTimeEntry(c)
  \/ \E c \in Contexts : ClearActiveTimer(c)

SpecSession == InitSession /\ [][NextSession]_vars

\* ------------------------------------------------------------------------
\* Two contexts of one user
\* ------------------------------------------------------------------------
\* Number of calls explored in the behaviours of two devices.
PairOps == 3

\* Number of calls explored in the behaviours of two tabs: with a user,
\* and without one (no database request is made then).
TabsOps == 2

LocalOnlyOps == 3

\* No session exists in any store and nothing is in flight.
NoSession ==
  /\ local = [d \in Devices |-> Null]
  /\ durable = Null
  /\ timeEntries = {}
  /\ storage = [c \in Contexts |-> <<>>]
  /\ CacheEmpty
  /\ inflight = {}
  /\ feed = [c \in Contexts |-> <<>>]

\* Both contexts are still to be mounted.
Unopened ==
  /\ pc = [c \in Contexts |-> "unmounted"]
  /\ state = [c \in Contexts |-> "idle"]
  /\ elapsedTime = [c \in Contexts |-> 0]
  /\ currentEntry = [c \in Contexts |-> Null]
  /\ isSyncing = [c \in Contexts |-> FALSE]
  /\ syncError = [c \in Contexts |-> FALSE]
  /\ intervalRef = [c \in Contexts |-> FALSE]
  /\ startTimeRef = [c \in Contexts |-> 0]
  /\ pausedTimeRef = [c \in Contexts |-> 0]
  /\ dbTimer = [c \in Contexts |-> Null]
  /\ localTimer = [c \in Contexts |-> Null]
  /\ timerToUse = [c \in Contexts |-> Null]
  /\ completedEntry = [c \in Contexts |-> Null]
  /\ stopResult = [c \in Contexts |-> <<>>]
  /\ listener = [c \in Contexts |-> "none"]
  /\ instants = [c \in Contexts |-> <<>>]

\* One signed-in user opens the application on two devices.
InitPair ==
  /\ now = StartNow
  /\ user = [c \in Contexts |-> TRUE]
  /\ device = [c \in Contexts |-> IF c = "A" THEN "d1" ELSE "d2"]
  /\ NoSession
  /\ Unopened
  /\ ops = MaxOps - PairOps

\* No local record exists at either startup, so that initializeTimer never
\* awaits saveActiveTimerToDb; a context may be closed.
NextPair ==
  \/ Advance
  \/ \E c \in Contexts : Mount(c)
  \/ \E c \in Contexts : InitLoad(c)
  \/ \E m \in inflight : UpsertDone(m)
  \/ \E m \in inflight : DeleteDone(m)
  \/ \E c \in Contexts : FeedEvent(c)
  \/ \E c \in Contexts, p \in Projects : start(c, p)
  \/ \E c \in Contexts : pause(c)
  \/ \E c \in Contexts : resume(c)
  \/ \E c \in Contexts : reset(c)
  \/ \E c \in Contexts : tick(c)
  \/ \E c \in Contexts : stop(c)
  \/ \E c \in Contexts : SaveTimeEntry(c)
  \/ \E c \in Contexts : ClearActiveTimer(c)
  \/ \E c \in Contexts : Unmount(c)

SpecPair == InitPair /\ [][NextPair]_vars

\* Two tabs of one browser: they share the device and the user, if any.
InitTabs ==
  /\ now = StartNow
  /\ user \in {[c \in Contexts |-> TRUE], [c \in Contexts |-> FALSE]}
  /\ device = [c \in Contexts |-> "d1"]
  /\ NoSession
  /\ Unopened
  /\ ops = MaxOps - (IF user["A"] THEN TabsOps ELSE LocalOnlyOps)

NextTabs ==
  \/ Advance
  \/ \E c \in Contexts : Mount(c)
  \/ \E c \in Contexts : InitLoad(c)
  \/ \E c \in Contexts : InitSave(c)
  \/ \E m \in inflight : UpsertDone(m)
  \/ \E m \in inflight : DeleteDone(m)
  \/ \E c \in Contexts : FeedEvent(c)
  \/ \E c \in Contexts : StorageEvent(c)
  \/ \E c \in Contexts, p \in Projects : start(c, p)
  \/ \E c \in Contexts : pause(c)
  \/ \E c \in Contexts : resume(c)
  \/ \E c \in Contexts : reset(c)
  \/ \E c \in Contexts : tick(c)
  \/ \E c \in Contexts : stop(c)
  \/ \E c \in Contexts : SaveTimeEntry(c)
  \/ \E c \in Contexts : ClearActiveTimer(c)

SpecTabs == InitTabs /\ [][NextTabs]_vars

\* ------------------------------------------------------------------------
\* Local-only mode
\* ------------------------------------------------------------------------
\* Nobody is signed in; each device starts with empty stores.
InitLocalOnly ==
  /\ now = StartNow
  /\ user = [c \in Contexts |-> FALSE]
  /\ device = [c \in Contexts |-> IF c = "A" THEN "d1" ELSE "d2"]
  /\ NoSession
  /\ Unopened
  /\ ops = MaxOps - LocalOnlyOps

\* The steps a hook without a user can take: it subscribes to nothing and
\* dispatches no durable write; stop() awaits saveTimeEntry.
NextLocalOnly ==
  \/ Advance
  \/ \E c \in Contexts : Mount(c)
  \/ \E c \in Contexts, p \in Projects : start(c, p)
  \/ \E c \in Contexts : pause(c)
  \/ \E c \in Contexts : resume(c)
  \/ \E c \in Contexts : reset(c)
  \/ \E c \in Contexts : tick(c)
  \/ \E c \in Contexts : stop(c)
  \/ \E c \in Contexts : SaveTimeEntry(c)

\* Every promise awaited by stop() settles.
SpecLocalOnly ==
  /\ InitLocalOnly
  /\ [][NextLocalOnly]_vars
  /\ \A c \in Contexts : WF_vars(SaveTimeEntry(c))

\* ------------------------------------------------------------------------
\* RequestCache (src/src/lib/requestCache.ts)
\* ------------------------------------------------------------------------
\* Everything but the clock and the cache.
timerVars == <<user, device, local, durable, timeEntries, inflight, feed, pc,
               hookVars, flagVars, initVars, stopVars, listener, ops, storage>>

\* The ttl arguments: 0 ("no caching, only deduplication") and the default.
Ttls == {0, DEFAULT_TTL}

\* One clock advance of the cache behaviours.
HalfTtl == DEFAULT_TTL \div 2

\* `cached && Date.now() - cached.timestamp < ttl`, under `if (ttl > 0)`
CacheHit(k, ttl) ==
  ttl > 0 /\ cache[k] # Null /\ now - cache[k].timestamp < ttl

\* What a fetch call returned: the cached data (request 0), or the promise
\* of request `request`.  waited is the request that was pending for the
\* key when the call was made (0: none), invoked tells that the call
\* invoked its wrapped function.
Call(k, ttl, request, data, invoked) ==
  [key |-> k, ttl |-> ttl, request |-> request, data |-> data,
   waited |-> pending[k], invoked |-> invoked]

\* Mutant: fetch does not look into the pending map.
fetchNoDedup(k, ttl) ==
  /\ Len(calls) < MaxCalls
  /\ IF CacheHit(k, ttl)
     THEN /\ calls' = Append(calls, Call(k, ttl, 0, cache[k].data, FALSE))
          /\ UNCHANGED <<requests, pending>>
     ELSE /\ requests' = Append(requests,
                                [key |-> k, ttl |-> ttl, status |-> "sent", data |-> 0,
                                 cleared |-> "no"])
          /\ pending' = [pending EXCEPT ![k] = Len(requests) + 1]
          /\ calls' = Append(calls, Call(k, ttl, Len(requests) + 1, 0, TRUE))
  /\ UNCHANGED <<now, cache, server, timerVars>>

\* fetch(key, fn, ttl): a valid cached entry is returned; otherwise the
\* pending promise of the key, if any; otherwise fn is invoked and its
\* promise stored as pending.  All of it runs without an await.
fetch(k, ttl) ==
  /\ Len(calls) < MaxCalls
  /\ IF CacheHit(k, ttl)
     THEN /\ calls' = Append(calls, Call(k, ttl, 0, cache[k].data, FALSE))
          /\ UNCHANGED <<requests, pending>>
     ELSE IF pending[k] # 0
     THEN /\ calls' = Append(calls, Call(k, ttl, pending[k], 0, FALSE))
          /\ UNCHANGED <<requests, pending>>
     ELSE /\ requests' = Append(requests,
                                [key |-> k, ttl |-> ttl, status |-> "sent", data |-> 0,
                                 cleared |-> "no"])
          /\ pending' = [pending EXCEPT ![k] = Len(requests) + 1]
          /\ calls' = Append(calls, Call(k, ttl, Len(requests) + 1, 0, TRUE))
  /\ UNCHANGED <<now, cache, server, timerVars>>

\* The wrapped function (a query of the database) reads the data.
Execute(r) ==
  /\ requests[r].status = "sent"
  /\ requests' = [requests EXCEPT ![r].status = "read",
                                  ![r].data = server[requests[r].key]]
  /\ UNCHANGED <<now, cache, pending, calls, server, timerVars>>

\* The .then of fetch: the result is cached when ttl > 0 and the key is
\* removed from pending.
Resolve(r) ==
  /\ requests[r].status = "read"
  /\ requests' = [requests EXCEPT ![r].status = "resolved"]
  /\ cache' = IF requests[r].ttl > 0
              THEN [cache EXCEPT ![requests[r].key] =
                      [data |-> requests[r].data, timestamp |-> now]]
              ELSE cache
  /\ pending' = [pending EXCEPT ![requests[r].key] = 0]
  /\ UNCHANGED <<now, calls, server, timerVars>>

\* Mutant: the .catch of fetch throws the error again and leaves the key
\* in pending.
RejectKeepsPending(r) ==
  /\ requests[r].status \in {"sent", "read"}
  /\ requests' = [requests EXCEPT ![r].status = "rejected"]
  /\ UNCHANGED <<now, cache, pending, calls, server, timerVars>>

\* The .catch of fetch: the key is removed from pending and the error is
\* thrown again.
Reject(r) ==
  /\ requests[r].status \in {"sent", "read"}
  /\ requests' = [requests EXCEPT ![r].status = "rejected"]
  /\ pending' = [pending EXCEPT ![requests[r].key] = 0]
  /\ UNCHANGED <<now, cache, calls, server, timerVars>>

\* The requests of key k that have not settled.
Outstanding(k) ==
  {r \in 1..Len(requests) :
     requests[r].key = k /\ requests[r].status \in {"sent", "read"}}

\* History: the requests of key k outstanding at a clear are marked with
\* what they had done by then ("sent": not read the data yet).
Cleared(k) ==
  [r \in 1..Len(requests) |->
     IF r \in Outstanding(k)
     THEN [requests[r] EXCEPT !.cleared = requests[r].status]
     ELSE requests[r]]

\* A mutation (saveProject, saveTimeEntry, ...): the data changes in the
\* database and the key is cleared from the cache; pending is not touched
\* by clear() and clearPattern().  The write and the clear are taken as
\* one step (the case of nothing happening between the two).
Mutate(k) ==
  /\ server[k] < MaxMutations
  /\ server' = [server EXCEPT ![k] = server[k] + 1]
  /\ cache' = [cache EXCEPT ![k] = Null]
  /\ requests' = Cleared(k)
  /\ UNCHANGED <<now, pending, calls, timerVars>>

\* A write to the same data by another browser of the user (its own
\* RequestCache is the one cleared): the data changes in the database, this
\* cache is not told.
RemoteChange(k) ==
  /\ server[k] < MaxMutations
  /\ server' = [server EXCEPT ![k] = server[k] + 1]
  /\ UNCHANGED <<now, cache, pending, requests, calls, timerVars>>

CacheClock ==
  /\ now < StartNow + CacheSteps * HalfTtl
  /\ now' = now + HalfTtl
  /\ UNCHANGED <<cacheVars, timerVars>>

\* A new RequestCache; the timer is not in use.
InitCache ==
  /\ now = StartNow
  /\ user = [c \in Contexts |-> TRUE]
  /\ device = [c \in Contexts |-> "d1"]
  /\ NoSession
  /\ Unopened
  /\ ops = 0

NextCache ==
  \/ CacheClock
  \/ \E k \in Keys, ttl \in Ttls : fetch(k, ttl)
  \/ \E r \in 1..Len(requests) : Execute(r)
  \/ \E r \in 1..Len(requests) : Resolve(r)
  \/ \E r \in 1..Len(requests) : Reject(r)
  \/ \E k \in Keys : Mutate(k)
  \/ \E k \in Keys : RemoteChange(k)

SpecCache == InitCache /\ [][NextCache]_vars

\* ------------------------------------------------------------------------
\* Steps, as seen from outside an action
\* ------------------------------------------------------------------------
\* The listener of c handles the event at the head of its channel.
FeedStep(c) == Len(feed'[c]) < Len(feed[c])

\* initializeTimer of c resumes after the load and resolves the conflict.
InitDecides(c) == pc[c] = "init_load" /\ pc'[c] # "init_load"

\* A step of stop() of c: the call, or the answer to one of its awaits.
StopStep(c) ==
  \/ pc[c] = "ready" /\ pc'[c] = "stop_save"
  \/ pc[c] \in {"stop_save", "stop_clear"} /\ pc'[c] # pc[c]

\* stop() of c returns.
StopReturns(c) == pc[c] \in {"stop_save", "stop_clear"} /\ pc'[c] = "ready"

\* stop() of c is called and takes its Completed Entry.
StopCalled(c) == pc[c] = "ready" /\ pc'[c] = "stop_save"

\* pause() of c acts.
PauseStep(c) == ops' = ops + 1 /\ state[c] = "running" /\ state'[c] = "paused"

\* resume() of c acts: the paused session of the context is running.
\* (start() can act in a paused context too, when the local store was
\* emptied under it: it begins another session.)
ResumeStep(c) ==
  /\ ops' = ops + 1 /\ state[c] = "paused" /\ state'[c] = "running"
  /\ currentEntry'[c].id = currentEntry[c].id

\* start() of c acts.
StartStep(c) == ops' = ops + 1 /\ state[c] = "idle" /\ state'[c] = "running"

\* The context computes the elapsed time of a running session: a tick
\* changes it, or a record is adopted (startup restore, change feed).
ComputesElapsed(c) ==
  /\ state'[c] = "running"
  /\ \/ elapsedTime'[c] # elapsedTime[c]
     \/ ops' = ops /\ currentEntry'[c] # currentEntry[c]

\* start() of c acts in whatever state: the context holds a session whose
\* only instant is that of this call.
StartActs(c) ==
  /\ ops' = ops + 1 /\ pc'[c] = pc[c]
  /\ instants'[c] = <<now>> /\ state'[c] = "running"

\* The upsert m dispatched by start/pause/resume is answered with an
\* error: the request is gone, the durable row is as it was and no event
\* is emitted.
UpsertFails(m) ==
  /\ m \in inflight /\ m \notin inflight' /\ m.kind = "upsert"
  /\ durable' = durable /\ feed' = feed

\* reset() of c acts on a running or paused session: the one call that
\* takes the context to idle at once.
ResetStep(c) ==
  ops' = ops + 1 /\ pc'[c] = pc[c] /\ state[c] # "idle" /\ state'[c] = "idle"

\* reset() acts while every context is idle: the one call that leaves
\* them all idle (start makes its context running).
IdleResetStep ==
  /\ ops' = ops + 1 /\ pc' = pc
  /\ \A c \in Contexts : state[c] = "idle" /\ state'[c] = "idle"

\* What reset() of c does outside the hook's own state.
ResetEffects(c) ==
  /\ local' = [local EXCEPT ![device[c]] = Null]
  /\ ~syncError'[c]
  /\ inflight' = IF user[c]
                 THEN inflight \cup {[kind |-> "delete", ctx |-> c, timer |-> Null]}
                 ELSE inflight

\* The delete m dispatched by reset() is answered and the durable row is
\* as it was (the request failed, or there was no row).
DeleteLeavesRow(m) ==
  /\ m \in inflight /\ m \notin inflight' /\ m.kind = "delete"
  /\ durable' = durable

\* The interval callback of c fires and publishes a new elapsed time: no
\* call is made, no answer or event is delivered, no startup or stop()
\* step is taken and the clock stands.
TickStep(c) ==
  /\ elapsedTime'[c] # elapsedTime[c]
  /\ ops' = ops /\ pc' = pc /\ feed' = feed /\ inflight' = inflight /\ now' = now

\* The saveTimeEntry of c's stop() has succeeded.
EntrySaved(c) ==
  /\ pc[c] = "stop_save"
  /\ \/ pc'[c] = "stop_clear"
     \/ pc'[c] = "ready" /\ stopResult'[c][1] = "saved"

\* Context c is closed (unmounted).
UnmountStep(c) == pc[c] = "ready" /\ pc'[c] = "closed"

\* Context c handles the oldest storage event of its queue.
StorageStep(c) ==
  /\ storage[c] # <<>> /\ storage'[c] = Tail(storage[c])
  /\ pc'[c] = pc[c]

\* The other tabs of c's device whose storage listener is registered.
OtherTabs(c) == {t \in Contexts \ {c} : device[t] = device[c] /\ Mounted(t)}

\* No write to the durable store is made or dispatched by the step.
NoDurableWrite(c) ==
  pc'[c] # "init_save" /\ durable' = durable /\ inflight' = inflight

\* The payload of a record, the fields an upsert sends.
Payload(t) ==
  <<t.id, t.projectId, t.startTime, t.timerState, t.pausedDuration>>

\* ------------------------------------------------------------------------
\* Claims
\* ------------------------------------------------------------------------
\* C1: when the write of the Completed Entry inside stop() fails, stop()
\* returns leaving the local store, the durable store and the hook state
\* (run state, entry, elapsed time, tick loop) as they were; a stop() whose
\* entry write and delete both succeed ends idle with the Completed Entry
\* in time_entries.
C1_StopFailureKeepsSession ==
  [][\A c \in Contexts :
       /\ (pc[c] = "stop_save" /\ pc'[c] = "ready") =>
            /\ stopResult'[c][1] = "save_failed"
            /\ local' = local /\ durable' = durable /\ timeEntries' = timeEntries
            /\ state'[c] = state[c] /\ currentEntry'[c] = currentEntry[c]
            /\ elapsedTime'[c] = elapsedTime[c] /\ intervalRef'[c] = intervalRef[c]
       /\ (pc[c] = "stop_clear" /\ pc'[c] = "ready" /\ stopResult'[c][1] = "saved") =>
            /\ state'[c] = "idle" /\ currentEntry'[c] = Null
            /\ timeEntryToInsert(completedEntry[c]) \in timeEntries'
            /\ local'[device[c]] = Null /\ durable' = Null
    ]_vars

\* C1 witness: a stop() failed at the entry write and left a running or
\* paused session; the retry succeeded and the context is idle with the
\* entry written.
C1_Witness ==
  \E c \in Contexts :
    /\ stopResult[c] = <<"saved", "save_failed">>
    /\ state[c] = "idle" /\ pc[c] = "ready"
    /\ timeEntries # {} /\ getActiveTimer(c) = Null

\* C2: a step of stop() that clears the local store or changes the durable
\* row happens only with the Completed Entry of that stop() already
\* written to time_entries.
C2_ClearOnlyAfterEntrySaved ==
  [][\A c \in Contexts :
       (StopStep(c) /\ (local' # local \/ durable' # durable)) =>
          LET entry == IF pc[c] = "ready" THEN completedEntry'[c]
                       ELSE completedEntry[c] IN
          /\ entry # Null
          /\ timeEntryToInsert(entry) \in timeEntries'
    ]_vars

\* C2 witness: stop() has written the entry and cleared the local store,
\* and the delete of the durable row is awaited.
C2_Witness ==
  \E c \in Contexts :
    /\ pc[c] = "stop_clear"
    /\ getActiveTimer(c) = Null
    /\ timeEntryToInsert(completedEntry[c]) \in timeEntries

\* C3 (as claimed): whenever stop() returns, either it succeeded, the state
\* is idle and the record is in neither store, or it failed, the state is
\* not idle and the record is still in the local store.
C3_StopReturnAgrees ==
  [][\A c \in Contexts :
       StopReturns(c) =>
         \/ /\ stopResult'[c][1] = "saved"
            /\ state'[c] = "idle"
            /\ local'[device[c]] = Null /\ durable' = Null
         \/ /\ stopResult'[c][1] # "saved"
            /\ state'[c] # "idle"
            /\ local'[device[c]] # Null
    ]_vars

\* C4: with a local and a durable record both present, startup uses the
\* durable record when its updatedAt is strictly greater and the local
\* record otherwise (also on a tie), and the record used becomes the
\* context's session when startup completes without a failed upsert.
C4_StartupPicksNewerTieLocal ==
  [][\A c \in Contexts :
       /\ (InitDecides(c) /\ dbTimer'[c] # Null /\ localTimer'[c] # Null) =>
            /\ dbTimer'[c] = durable /\ localTimer'[c] = getActiveTimer(c)
            /\ timerToUse'[c] =
                 IF dbTimer'[c].updatedAt > localTimer'[c].updatedAt
                 THEN dbTimer'[c] ELSE localTimer'[c]
       /\ (pc[c] \in {"init_load", "init_save"} /\ pc'[c] = "ready"
             /\ ~syncError'[c] /\ timerToUse'[c] # Null) =>
            /\ currentEntry'[c] = timerToUse'[c]
            /\ state'[c] = timerToUse'[c].timerState
    ]_vars

\* C4 witness: startup met two records with equal updatedAt and the
\* context now holds the local one.
C4_Witness ==
  \E c \in Contexts :
    /\ pc[c] = "ready"
    /\ dbTimer[c] # Null /\ localTimer[c] # Null
    /\ dbTimer[c] # localTimer[c]
    /\ dbTimer[c].updatedAt = localTimer[c].updatedAt
    /\ currentEntry[c] = localTimer[c]

\* C5: with exactly one record present startup uses it and writes it to
\* the store that lacked it (durable only: the local store is set to it
\* and no durable write is made; local only: it is upserted, and a
\* successful upsert leaves its payload in the durable row); with no
\* record in either store the context stays idle and writes nothing.
C5_OnePresentPropagates ==
  [][\A c \in Contexts :
       /\ InitDecides(c) =>
            /\ (dbTimer'[c] # Null /\ localTimer'[c] = Null) =>
                 /\ timerToUse'[c] = dbTimer'[c]
                 /\ local'[device[c]] = dbTimer'[c]
                 /\ currentEntry'[c] = dbTimer'[c]
                 /\ NoDurableWrite(c)
            /\ (dbTimer'[c] = Null /\ localTimer'[c] # Null) =>
                 /\ timerToUse'[c] = localTimer'[c]
                 /\ pc'[c] = "init_save"
                 /\ local' = local
            /\ (durable = Null /\ getActiveTimer(c) = Null) =>
                 /\ state'[c] = "idle" /\ currentEntry'[c] = Null
                 /\ local' = local
                 /\ NoDurableWrite(c)
       /\ (pc[c] = "init_save" /\ pc'[c] = "ready" /\ ~syncError'[c]) =>
            /\ Payload(durable') = Payload(timerToUse[c])
            /\ currentEntry'[c] = timerToUse[c]
            /\ local' = local
    ]_vars

\* C5 witness: startup found a local record and no durable one, upserted
\* it, and the durable row now carries it.
C5_Witness ==
  \E c \in Contexts :
    /\ pc[c] = "ready" /\ ~syncError[c]
    /\ dbTimer[c] = Null /\ localTimer[c] # Null
    /\ durable # Null /\ Payload(durable) = Payload(localTimer[c])
    /\ currentEntry[c] = localTimer[c]

\* C6 (as claimed): with both records present the winner is written only
\* to the store that held the loser, and on equal updatedAt no durable
\* write is issued.
C6_NoDurableWriteOnTie ==
  [][\A c \in Contexts :
       (InitDecides(c) /\ dbTimer'[c] # Null /\ localTimer'[c] # Null) =>
          /\ (dbTimer'[c].updatedAt > localTimer'[c].updatedAt) =>
               (local'[device[c]] = dbTimer'[c] /\ NoDurableWrite(c))
          /\ (dbTimer'[c].updatedAt < localTimer'[c].updatedAt) =>
               local' = local
          /\ (dbTimer'[c].updatedAt = localTimer'[c].updatedAt) =>
               (local' = local /\ NoDurableWrite(c))
    ]_vars

\* C6 (amended): with both records present, a strictly newer durable
\* record overwrites the local store and no durable write is issued;
\* otherwise (the local record is newer, or the two updatedAt are equal)
\* the local store is left unchanged and the local record is upserted to
\* the durable store.
C6_LocalWinnerIsUpserted ==
  [][\A c \in Contexts :
       (InitDecides(c) /\ dbTimer'[c] # Null /\ localTimer'[c] # Null) =>
          /\ (dbTimer'[c].updatedAt > localTimer'[c].updatedAt) =>
               (local'[device[c]] = dbTimer'[c] /\ NoDurableWrite(c))
          /\ (dbTimer'[c].updatedAt <= localTimer'[c].updatedAt) =>
               /\ local' = local
               /\ pc'[c] = "init_save"
               /\ timerToUse'[c] = localTimer'[c]
    ]_vars

\* C6 witness: on a tie the upsert of the local record is awaited.
C6_Witness ==
  \E c \in Contexts :
    /\ pc[c] = "init_save"
    /\ dbTimer[c] # Null /\ localTimer[c] # Null
    /\ dbTimer[c].updatedAt = localTimer[c].updatedAt
    /\ timerToUse[c] = localTimer[c]
    /\ getActiveTimer(c) = localTimer[c]

\* C7: an insert/update event whose record has the updatedAt of the record
\* in the local store changes neither run state, elapsed time, current
\* entry, local store nor tick loop.
C7_EchoIsDiscarded ==
  [][\A c \in Contexts :
       (/\ FeedStep(c)
        /\ Head(feed[c]) # Null /\ getActiveTimer(c) # Null
        /\ Head(feed[c]).updatedAt = getActiveTimer(c).updatedAt) =>
          /\ state'[c] = state[c] /\ elapsedTime'[c] = elapsedTime[c]
          /\ currentEntry'[c] = currentEntry[c]
          /\ intervalRef'[c] = intervalRef[c]
          /\ startTimeRef'[c] = startTimeRef[c]
          /\ pausedTimeRef'[c] = pausedTimeRef[c]
          /\ local' = local
    ]_vars

\* C7 witness: the listener has ignored an event while the local store
\* held a record.
C7_Witness ==
  \E c \in Contexts : listener[c] = "ignored" /\ getActiveTimer(c) # Null

\* C8 (as claimed): an insert/update event whose updatedAt is smaller than
\* the local record's never replaces the session of the context.
C8_OlderEventNeverReplaces ==
  [][\A c \in Contexts :
       (/\ FeedStep(c)
        /\ Head(feed[c]) # Null /\ getActiveTimer(c) # Null
        /\ Head(feed[c]).updatedAt < getActiveTimer(c).updatedAt) =>
          /\ currentEntry'[c] = currentEntry[c]
          /\ state'[c] = state[c]
    ]_vars

\* C9 (as claimed): an insert/update event strictly newer than the local
\* record overwrites the local store with the event's record.
C9_NewerEventOverwritesLocal ==
  [][\A c \in Contexts :
       (/\ FeedStep(c)
        /\ Head(feed[c]) # Null /\ getActiveTimer(c) # Null
        /\ Head(feed[c]).updatedAt > getActiveTimer(c).updatedAt) =>
          local'[device[c]] = Head(feed[c])
    ]_vars

\* C10: a delete event leaves the context idle with elapsed time 0, no
\* current entry, the tick loop stopped and the local store cleared,
\* whatever it held.
C10_DeleteGoesIdle ==
  [][\A c \in Contexts :
       (FeedStep(c) /\ Head(feed[c]) = Null) =>
          /\ state'[c] = "idle" /\ elapsedTime'[c] = 0
          /\ currentEntry'[c] = Null
          /\ ~intervalRef'[c]
          /\ local'[device[c]] = Null
    ]_vars

\* C10 witness: the listener has handled a delete event and the context
\* is idle with an empty local store.
C10_Witness ==
  \E c \in Contexts :
    /\ listener[c] = "cleared"
    /\ state[c] = "idle" /\ currentEntry[c] = Null /\ ~intervalRef[c]
    /\ getActiveTimer(c) = Null

C12_AbandonedSessionNotRestored ==
  [][\A c \in Contexts :
       (/\ InitDecides(c)
        /\ durable # Null
        /\ now - durable.updatedAt > STALE_TIMER_THRESHOLD
        /\ durable' = Null) =>
          /\ pc'[c] = "ready"
          /\ state'[c] = "idle" /\ currentEntry'[c] = Null
          /\ local'[device[c]] = Null
    ]_vars

\* C13 (as claimed): for a session started at S, paused at P, resumed at
\* R and stopped at now, the totalDuration of the Completed Entry is
\* T1 + T2 seconds with T1 = P - S and T2 = now - R, whatever ticks fired.
C13_DurationIsT1PlusT2 ==
  [][\A c \in Contexts :
       (StopCalled(c) /\ Len(instants[c]) = 3) =>
          completedEntry'[c].duration * MILLISECONDS_PER_SECOND =
            (instants[c][2] - instants[c][1]) + (now - instants[c][3])
    ]_vars

\* C14 (as claimed): pause() at instant now stores a record with
\* runState paused and pausedAccumulated equal to the seconds between the
\* record's startedAt and now, whenever the last tick fired.
C14_PauseFreezesElapsedNow ==
  [][\A c \in Contexts :
       PauseStep(c) =>
          /\ local'[device[c]] # Null
          /\ local'[device[c]].timerState = "paused"
          /\ local'[device[c]].pausedDuration =
                FloorSeconds(now - currentEntry[c].startTime)
    ]_vars

\* C15: resume() at instant now on a paused session stores a running
\* record with startedAt = now - pausedAccumulated * 1000 ms, and the
\* elapsed time shown right after it (the state, and what a tick at that
\* instant computes) equals the elapsed time shown right before it; a
\* call (other than stop()) that leaves a context running from any state
\* other than paused is a start() with a new record, so resume() changes
\* nothing there.
C15_ResumeRebasesStart ==
  [][\A c \in Contexts :
       /\ ResumeStep(c) =>
            /\ local'[device[c]] = currentEntry'[c]
            /\ currentEntry'[c] =
                  [currentEntry[c] EXCEPT
                     !.timerState = "running",
                     !.startTime = now - currentEntry[c].pausedDuration
                                           * MILLISECONDS_PER_SECOND,
                     !.updatedAt = now]
            /\ elapsedTime'[c] = elapsedTime[c]
            /\ FloorSeconds(now - startTimeRef'[c]) = elapsedTime[c]
       /\ (/\ ops' = ops + 1 /\ pc'[c] = pc[c]
           /\ state'[c] = "running" /\ state[c] # "paused") =>
            \E p \in Projects :
              currentEntry'[c] = Timer(now, p, now, "running", 0, now, now)
    ]_vars

\* C15 witness: a session paused with one second banked has just been
\* resumed: its record is running, rebased by that second, and the elapsed
\* time still shows it.
C15_Witness ==
  \E c \in Contexts :
    /\ state[c] = "running" /\ ops > 0
    /\ getActiveTimer(c) = currentEntry[c]
    /\ currentEntry[c].pausedDuration = 1
    /\ currentEntry[c].updatedAt = now
    /\ currentEntry[c].startTime = now - MILLISECONDS_PER_SECOND
    /\ elapsedTime[c] = 1

C18_UpdatedAtStrictlyIncreases ==
  [][\A c \in Contexts :
       (PauseStep(c) \/ ResumeStep(c)) =>
          /\ currentEntry'[c].updatedAt > currentEntry[c].updatedAt
          /\ local[device[c]] # Null =>
                local'[device[c]].updatedAt > local[device[c]].updatedAt
    ]_vars

\* C19 (as claimed): a stop attempt changes the updatedAt of the Session
\* Record: when stop() returns having failed, the record that remains in
\* the local store is stamped with the instant of the attempt or later.
C19_FailedStopBumpsUpdatedAt ==
  [][\A c \in Contexts :
       (/\ StopReturns(c) /\ stopResult'[c][1] # "saved"
        /\ local'[device[c]] # Null) =>
          local'[device[c]].updatedAt >= completedEntry[c].updatedAt
    ]_vars

\* C19 (amended): a stop attempt stamps only the Completed Entry with
\* updatedAt = now.  No step of stop() writes a Session Record: the call
\* changes neither store, each later step leaves a store as it was or
\* empties it, and the step at which stop() fails changes neither store,
\* so a record that remains has the updatedAt it had.
C19_FailedStopKeepsUpdatedAt ==
  [][\A c \in Contexts :
       /\ StopCalled(c) =>
            /\ completedEntry'[c].updatedAt = now
            /\ local' = local /\ durable' = durable
       /\ StopStep(c) =>
            /\ local'[device[c]] \in {local[device[c]], Null}
            /\ durable' \in {durable, Null}
       /\ (StopReturns(c) /\ stopResult'[c][1] # "saved") =>
            (local' = local /\ durable' = durable)
    ]_vars

\* C19 witness: stop() has failed at the entry write after the clock
\* advanced, and both stores still hold a record stamped before the
\* attempt.
C19_Witness ==
  \E c \in Contexts :
    /\ pc[c] = "ready" /\ stopResult[c] # <<>>
    /\ stopResult[c][1] = "save_failed"
    /\ getActiveTimer(c) # Null /\ getActiveTimer(c).updatedAt < now
    /\ durable # Null /\ durable.updatedAt < now

\* C20: start() from idle creates a record with runState running,
\* startedAt = now, pausedAccumulated = 0 and createdAt = updatedAt = now.
\* When start(), pause() or resume() returns, the local store holds the
\* record the context holds, every durable request the call dispatched
\* is an upsert of that very record (one is dispatched when there is a
\* user), and the durable row has not changed yet: local first, durable
\* second.
C20_LocalFirstDurableSecond ==
  [][\A c \in Contexts :
       /\ StartStep(c) =>
            \E p \in Projects :
              currentEntry'[c] = Timer(now, p, now, "running", 0, now, now)
       /\ (StartStep(c) \/ PauseStep(c) \/ ResumeStep(c)) =>
            /\ local'[device[c]] = currentEntry'[c]
            /\ durable' = durable
            /\ \A m \in inflight' \ inflight :
                 m = [kind |-> "upsert", ctx |-> c, timer |-> local'[device[c]]]
            /\ user[c] =>
                 [kind |-> "upsert", ctx |-> c, timer |-> local'[device[c]]]
                   \in inflight'
    ]_vars

\* C20 witness: start() has returned: the new record is in the local
\* store, its upsert is in flight and the durable store has no row yet.
C20_Witness ==
  \E c \in Contexts :
    /\ state[c] = "running" /\ user[c]
    /\ getActiveTimer(c) # Null
    /\ getActiveTimer(c) = Timer(now, "P1", now, "running", 0, now, now)
    /\ [kind |-> "upsert", ctx |-> c, timer |-> getActiveTimer(c)] \in inflight
    /\ durable = Null

\* C21: start() acts only when the local store shows no Session Record;
\* called while one is visible it returns at once, which is no step at
\* all: state, elapsed time, session, both stores and the requests in
\* flight stay as they are.
C21_StartNeedsEmptyLocalStore ==
  [][\A c \in Contexts : StartActs(c) => local[device[c]] = Null]_vars

\* C21 witness: a session has been started and is visible in the local
\* store while further calls are possible: a start() here returns at once.
C21_Witness ==
  \E c \in Contexts :
    /\ Ready(c) /\ ops < MaxOps
    /\ instants[c] # <<>> /\ state[c] # "idle"
    /\ getActiveTimer(c) # Null /\ getActiveTimer(c) = currentEntry[c]

\* C22: start(), pause() and resume() do not wait for the durable store
\* and are not rolled back by it: when the upsert they dispatched fails,
\* the run state, elapsed time, session and refs of the context and the
\* local store stay as the call left them, the sync-error flag is set,
\* and the tick loop of a running session stays on.
C22_FailedUpsertKeepsSession ==
  [][\A m \in inflight :
       UpsertFails(m) =>
         /\ syncError'[m.ctx] /\ ~isSyncing'[m.ctx]
         /\ local' = local
         /\ state'[m.ctx] = state[m.ctx]
         /\ currentEntry'[m.ctx] = currentEntry[m.ctx]
         /\ elapsedTime'[m.ctx] = elapsedTime[m.ctx]
         /\ startTimeRef'[m.ctx] = startTimeRef[m.ctx]
         /\ pausedTimeRef'[m.ctx] = pausedTimeRef[m.ctx]
         /\ intervalRef'[m.ctx] = (state[m.ctx] = "running")
    ]_vars

\* C22 witness: the upsert of a start() failed; later the session is
\* still running with its record in the local store, the flag is set, the
\* tick loop is on and the durable store has no row.
C22_Witness ==
  \E c \in Contexts :
    /\ user[c] /\ syncError[c] /\ inflight = {}
    /\ state[c] = "running" /\ intervalRef[c]
    /\ instants[c] # <<>> /\ Len(instants[c]) = 1
    /\ getActiveTimer(c) = currentEntry[c]
    /\ durable = Null /\ dbTimer[c] = Null /\ localTimer[c] = Null
    /\ now > currentEntry[c].updatedAt

\* C23: reset() from any state leaves the context idle with elapsed time
\* 0, no current session, the tick loop off and an empty local store; it
\* writes no Completed Entry and touches the durable row only through the
\* delete it dispatches (when there is a user), and when that delete
\* fails the context and the local store stay as reset() left them.
C23_ResetAlwaysGoesIdle ==
  [][/\ \A c \in Contexts :
          ResetStep(c) =>
            /\ elapsedTime'[c] = 0 /\ currentEntry'[c] = Null
            /\ ~intervalRef'[c] /\ ResetEffects(c)
            /\ timeEntries' = timeEntries /\ durable' = durable
     /\ IdleResetStep =>
          /\ \E c \in Contexts :
               /\ pc[c] = "ready" /\ state[c] = "idle" /\ ResetEffects(c)
               /\ elapsedTime'[c] = 0 /\ currentEntry'[c] = Null
               /\ ~intervalRef'[c]
          /\ timeEntries' = timeEntries /\ durable' = durable
     /\ \A m \in inflight :
          DeleteLeavesRow(m) =>
            /\ local' = local /\ timeEntries' = timeEntries
            /\ state' = state /\ currentEntry' = currentEntry
            /\ elapsedTime' = elapsedTime /\ syncError' = syncError
    ]_vars

\* C23 witness: a session restored from the durable row was reset and
\* the delete failed: the context is idle with an empty local store, no
\* Completed Entry exists and the row is still there.
C23_Witness ==
  \E c \in Contexts :
    /\ user[c] /\ pc[c] = "ready" /\ ops > 0 /\ stopResult[c] = <<>>
    /\ dbTimer[c] # Null /\ durable = dbTimer[c]
    /\ inflight = {} /\ feed[c] = <<>> /\ listener[c] = "none"
    /\ state[c] = "idle" /\ elapsedTime[c] = 0 /\ currentEntry[c] = Null
    /\ ~intervalRef[c] /\ getActiveTimer(c) = Null
    /\ timeEntries = {}

\* C26: a tick changes only the published elapsed time of its context:
\* both stores, the Completed Entries, the run state and the session
\* record (hence its updatedAt) are as before; and the tick loop is on
\* only while the state is running, so that only a running context ticks.
C26_TickChangesOnlyElapsed ==
  [][\A c \in Contexts :
       /\ intervalRef'[c] => state'[c] = "running"
       /\ TickStep(c) =>
            /\ state[c] = "running" /\ intervalRef[c]
            /\ local' = local /\ durable' = durable
            /\ timeEntries' = timeEntries
            /\ state' = state /\ currentEntry' = currentEntry
            /\ \A d \in Contexts \ {c} : elapsedTime'[d] = elapsedTime[d]
    ]_vars

\* C26 witness: a session restored from localStorage has ticked since
\* (it shows more seconds than at the instant of the startup write); no
\* call was made, the record in localStorage is the restored one and the
\* durable row is the one written at startup.
C26_Witness ==
  \E c \in Contexts :
    /\ pc[c] = "ready" /\ ops = 0 /\ listener[c] = "none"
    /\ state[c] = "running" /\ intervalRef[c]
    /\ localTimer[c] # Null /\ dbTimer[c] = Null
    /\ currentEntry[c] = localTimer[c] /\ getActiveTimer(c) = localTimer[c]
    /\ durable # Null /\ durable.updatedAt < now
    /\ elapsedTime[c] = 2
    /\ FloorSeconds(durable.updatedAt - currentEntry[c].startTime) < 2
    /\ elapsedTime[c] = FloorSeconds(now - currentEntry[c].startTime)

\* C27 (as claimed): in a context without identity no operation touches
\* the durable store (no row or Completed Entry is written, no write is
\* dispatched, no event is published), and every operation does its work
\* on the local store: a stop() that returns has ended the session (the
\* context is idle, the local store is empty, no error is raised).
C27_NoIdentityWorksLocally ==
  [][/\ (\A d \in Contexts : Mounted(d) => ~user[d]) =>
          /\ durable' = durable /\ timeEntries' = timeEntries
          /\ inflight' = inflight /\ feed' = feed
     /\ \A c \in Contexts :
          (~user[c] /\ StopReturns(c)) =>
            /\ state'[c] = "idle" /\ currentEntry'[c] = Null
            /\ local'[device[c]] = Null /\ ~syncError'[c]
    ]_vars

\* Two stores hold the same Session Record, or both hold none.  The
\* stamps createdAt and updatedAt are left out of the comparison: the
\* database sets its own.
SameSession(a, b) ==
  \/ a = Null /\ b = Null
  \/ /\ a # Null /\ b # Null
     /\ a.id = b.id /\ a.projectId = b.projectId
     /\ a.timerState = b.timerState
     /\ a.startTime = b.startTime /\ a.pausedDuration = b.pausedDuration

\* Quiescence: no durable write or delete is in flight or awaited, every
\* change-feed event and storage event was handled, and no context has
\* seen a durable operation fail.
Quiescent ==
  /\ inflight = {}
  /\ \A c \in Contexts :
       /\ feed[c] = <<>> /\ storage[c] = <<>>
       /\ pc[c] = "ready"
       /\ ~syncError[c] /\ ~isSyncing[c]
       /\ \A i \in 1..Len(stopResult[c]) : stopResult[c][i] = "saved"

\* C24 (as claimed), for two open contexts that both hold a session: at
\* quiescence the durable store and the local store of each context hold
\* the same Session Record.
C24_StoresAgreeAtQuiescence ==
  (Quiescent /\ \A c \in Contexts : state[c] # "idle") =>
    \A c \in Contexts : SameSession(getActiveTimer(c), durable)

OneEntryPerId ==
  \A e1, e2 \in timeEntries : e1.id = e2.id => e1 = e2

C29_ClosedContextIsInert ==
  [][/\ \A c \in Contexts :
          /\ UnmountStep(c) =>
               /\ ~intervalRef'[c] /\ feed'[c] = <<>> /\ storage'[c] = <<>>
               /\ inflight' = inflight /\ durable' = durable /\ local' = local
          /\ pc[c] = "closed" =>
               /\ pc'[c] = "closed"
               /\ ~intervalRef'[c] /\ feed'[c] = <<>> /\ storage'[c] = <<>>
               /\ state'[c] = state[c] /\ elapsedTime'[c] = elapsedTime[c]
               /\ currentEntry'[c] = currentEntry[c]
     /\ \A m \in inflight :
          (pc[m.ctx] = "closed" /\ m \notin inflight') =>
            /\ inflight' = inflight \ {m}
            /\ durable' \in {durable, IF m.kind = "upsert" THEN DbRow(m.timer) ELSE Null}
    ]_vars

\* C29 witness: a context was closed while the upsert of its start() was
\* in flight (its isSyncing was never cleared); the upsert has completed
\* since, the row is in the durable store and the other context has
\* applied it from the change feed; the closed context is as it was.
C29_Witness ==
  \E c, d \in Contexts :
    /\ pc[c] = "closed" /\ isSyncing[c] /\ ~syncError[c]
    /\ inflight = {} /\ ~intervalRef[c]
    /\ state[c] = "running" /\ Len(instants[c]) = 1
    /\ durable # Null /\ durable.id = currentEntry[c].id
    /\ now > currentEntry[c].updatedAt /\ durable.updatedAt = now
    /\ elapsedTime[c] = 0
    /\ d # c /\ pc[d] = "ready" /\ listener[d] = "synced"
    /\ currentEntry[d] = durable

\* ------------------------------------------------------------------------
\* C30
\* ------------------------------------------------------------------------
\* The calls that invoked the wrapped function of request r.
Invokers(r) == {i \in 1..Len(calls) : calls[i].invoked /\ calls[i].request = r}

\* What call i resolves to: the cached data it was handed, or the outcome
\* of the request whose promise it was handed.
Result(i) ==
  IF calls[i].request = 0
  THEN [status |-> "resolved", data |-> calls[i].data]
  ELSE [status |-> requests[calls[i].request].status,
        data |-> requests[calls[i].request].data]

Joins(r) ==
  /\ Len(calls') = Len(calls) + 1
  /\ calls'[Len(calls')].request = r

\* Request r resolves.
Resolves(r) ==
  requests[r].status = "read" /\ requests'[r].status = "resolved"

\* C31: once a mutation has cleared a key, no fetch call is handed a
\* request of the key that read its data before the clear, and the result
\* of such a request does not enter the cache.
C31_ClearDropsEarlierRequests ==
  [][\A r \in 1..Len(requests) :
       requests[r].cleared = "read" =>
         /\ ~Joins(r)
         /\ Resolves(r) => cache'[requests[r].key] = cache[requests[r].key]]_vars

\* ------------------------------------------------------------------------
\* C38
\* ------------------------------------------------------------------------
\* The wrapped function of request r fails.
Rejects(r) ==
  requests[r].status \in {"sent", "read"} /\ requests'[r].status = "rejected"

\* The latest request of key k (0: none).
LastRequest(k) ==
  IF \E r \in 1..Len(requests) : requests[r].key = k
  THEN CHOOSE r \in 1..Len(requests) :
         /\ requests[r].key = k
         /\ \A q \in 1..Len(requests) : requests[q].key = k => q <= r
  ELSE 0

\* The latest request of key k has failed.
LastFailed(k) ==
  LastRequest(k) # 0 /\ requests[LastRequest(k)].status = "rejected"

\* A fetch call of key k is made.
Fetches(k) ==
  /\ Len(calls') = Len(calls) + 1
  /\ calls'[Len(calls')].key = k

InitSaveFails(c) ==
  pc[c] = "init_save" /\ pc'[c] = "ready" /\ feed' = feed

\* The hook state of context c is the one restored from record t.
RestoredFrom(c, t) ==
  /\ currentEntry'[c] = t
  /\ state'[c] = t.timerState
  /\ elapsedTime'[c] = IF t.timerState = "running"
                       THEN FloorSeconds(now - t.startTime)
                       ELSE t.pausedDuration
  /\ intervalRef'[c] = (t.timerState = "running")

\* C32: when the upsert of the local winner fails at startup, the sync
\* error flag is set, both stores are left as they were, and the hook state
\* is restored from the record the local store holds (running: whole
\* seconds since startTime; paused: pausedDuration); with the local store
\* emptied in the meantime nothing is restored.
C32_FailedStartupFallsBackToLocal ==
  [][\A c \in Contexts :
       InitSaveFails(c) =>
         /\ syncError'[c]
         /\ local' = local /\ durable' = durable
         /\ IF getActiveTimer(c) # Null
            THEN RestoredFrom(c, getActiveTimer(c))
            ELSE /\ state'[c] = state[c]
                 /\ currentEntry'[c] = currentEntry[c]
                 /\ elapsedTime'[c] = elapsedTime[c]
    ]_vars

\* C32 witness: startup found a paused local record, its upsert failed,
\* and the context is paused on that record with the error flag set.
C32_Witness ==
  \E c \in Contexts :
    /\ pc[c] = "ready" /\ syncError[c]
    /\ localTimer[c] # Null /\ timerToUse[c] = localTimer[c]
    /\ localTimer[c].timerState = "paused"
    /\ getActiveTimer(c) = localTimer[c]
    /\ currentEntry[c] = localTimer[c] /\ state[c] = "paused"
    /\ elapsedTime[c] = localTimer[c].pausedDuration
    /\ ~intervalRef[c]
    /\ durable = Null

\* ------------------------------------------------------------------------
\* C33
\* ------------------------------------------------------------------------
\* The upsert of record t takes effect: the row carries its payload.
Upserted(t) ==
  /\ durable' # Null /\ durable' # durable
  /\ Payload(durable') = Payload(t)

\* C33: the row written by an upsert of record r, which is what a load or
\* a change event hands back, has the updatedAt and the createdAt of r.
C33_RoundTripKeepsStamps ==
  [][/\ \A m \in inflight :
          (m.kind = "upsert" /\ m \notin inflight' /\ Upserted(m.timer)) =>
            /\ durable'.updatedAt = m.timer.updatedAt
            /\ durable'.createdAt = m.timer.createdAt
     /\ \A c \in Contexts :
          (pc[c] = "init_save" /\ pc'[c] = "ready" /\ Upserted(timerToUse[c])) =>
            /\ durable'.updatedAt = timerToUse[c].updatedAt
            /\ durable'.createdAt = timerToUse[c].createdAt
    ]_vars

\* ------------------------------------------------------------------------
\* C34
\* ------------------------------------------------------------------------
\* Context c handles a DELETE event while it runs a session that it
\* started itself and that its local store holds.  In the behaviours of
\* one open context every DELETE event comes from that context's own
\* stop() or reset(), called before the session was started.
OwnDeleteArrives(c) ==
  /\ FeedStep(c) /\ Head(feed[c]) = Null
  /\ state[c] = "running" /\ instants[c] # <<>>
  /\ getActiveTimer(c) = currentEntry[c]

\* C34: the DELETE event of the context's own earlier stop() or reset()
\* leaves a session started since then running and in the local store.
C34_OwnDeleteSparesNewSession ==
  [][\A c \in Contexts :
       OwnDeleteArrives(c) =>
         /\ state'[c] = "running"
         /\ currentEntry'[c] = currentEntry[c]
         /\ local' = local
    ]_vars

\* ------------------------------------------------------------------------
\* C35
\* ------------------------------------------------------------------------
\* C35: in a context with no operation in progress the state is idle
\* exactly when the local store holds no Session Record, and a session that
\* is not idle is the record in the local store.
C35_IdleIffNoLocalRecord ==
  \A c \in Contexts :
    pc[c] = "ready" =>
      /\ (state[c] = "idle") <=> (getActiveTimer(c) = Null)
      /\ state[c] # "idle" => currentEntry[c] = getActiveTimer(c)

\* ------------------------------------------------------------------------
\* C36
\* ------------------------------------------------------------------------
\* C36: the upsert of the local record made by startup never replaces a
\* durable record whose updatedAt is strictly greater than the local
\* record's.
C36_StartupNeverOverwritesNewer ==
  [][\A c \in Contexts :
       (pc[c] = "init_save" /\ pc'[c] = "ready" /\ Upserted(timerToUse[c])) =>
         ~(durable # Null /\ durable.updatedAt > timerToUse[c].updatedAt)
    ]_vars

\* ------------------------------------------------------------------------
\* C37
\* ------------------------------------------------------------------------
\* C37: in local-only mode a stop() that was called leads to the context
\* being idle with its local store cleared.
C37_StopEndsLocalSession ==
  \A c \in Contexts :
    (pc[c] = "stop_save" /\ ~user[c])
      ~> (state[c] = "idle" /\ getActiveTimer(c) = Null)

====
